---------------------------- MODULE Spec2Model ----------------------------
(***************************************************************************)
(* A model of the analysis pipeline of pyupgrade-backend (src/scanner.py,  *)
(* src/ai_service.py): the vulnerability lookup, the risk score and the    *)
(* orchestration of one run of analyze_repository.                         *)
(*                                                                         *)
(* The specifications share the variables:                                 *)
(*   SpecOsv   calls of check_osv_for_vulnerabilities on drawn inputs;     *)
(*   SpecRisk  the risk score of two drawn pairs of finding lists;         *)
(*   Spec      one run of analyze_repository, step by step;                *)
(*   SpecDetect  one call of detect_python_version on a drawn repository;  *)
(*   SpecReq     one call of parse_pinned_requirements on a drawn manifest;*)
(*   SpecScan    one call of analyze_python_file on a drawn file;          *)
(*   SpecConc    concurrent runs of analyze_repository and their workspaces;*)
(*   SpecTask    one execution of the queued task run_repository_scan;     *)
(*   SpecApi     one request to start_scan or get_scan_status.             *)
(***************************************************************************)
EXTENDS Integers, Sequences, FiniteSets, TLC

VARIABLES
    \* ---- check_osv_for_vulnerabilities (SpecOsv) ----
    osv_pc,          \* "call" | "response" | "done"
    dependencies,    \* the argument: a sequence of [name, version]
    response,        \* what the OSV service answers to the one batch request
    queries,         \* the batch sent by the last request (<<>> before any)
    requests,        \* number of POSTs issued so far, over all calls
    report_entries,  \* the list under construction / returned
    osv_returns,     \* the lists returned by the completed calls, in order
    \* ---- risk score of two pairs of lists (SpecRisk) ----
    risk_in,         \* <<[deps, issues], [deps, issues]>>
    risk_out,        \* <<>> or the two scores
    \* ---- analyze_repository (Spec) ----
    pc,              \* position in analyze_repository
    temp_dir,        \* TRUE iff the workspace directory exists on disk
    created,         \* TRUE iff mkdtemp has created the workspace in this run
    cloned,          \* TRUE iff Repo.clone_from has returned
    files,           \* the files of the cloned tree the walk has yet to visit
    detected_version,
    parsed_deps,     \* analyze_repository's local `dependencies`
    dependency_report,
    syntax_issues,
    ai_reply,        \* what the summarizer's model call did ("unset" before)
    ai_generated_content,
    final_report,    \* NoReport or the dict built at lines 291-303
    pending,         \* what the try block ended with: "none"|"return"|an error
    outcome,         \* "running" | "returned" | "raised"
    error,           \* the exception the call raised ("none" if none)
    osv_posts,       \* POSTs issued by this run
    listing,         \* the files os.walk found in the cloned tree
    scanned,         \* the paths handed to analyze_python_file, in order
    version_files,   \* "unknown", or whether the clone has a version file
    manifest_file,   \* "unknown", or whether the clone has requirements.txt
    \* ---- detect_python_version (SpecDetect) ----
    det_pc,          \* "runtime" | "pyenv" | "pyproject" | "done" | "raised"
    repo_path,       \* the three version files of the repository
    det_version,     \* the value returned (<<>> before the return)
    returned_at,     \* the return statement taken ("none" before it)
    \* ---- parse_pinned_requirements (SpecReq) ----
    req_pc,          \* "open" | "lines" | "done" | "raised"
    requirements_path, \* the manifest: missing, unopenable or its lines
    lines_left,      \* the lines the loop has yet to read
    pinned,          \* the function's local `dependencies`
    \* ---- analyze_python_file (SpecScan) ----
    scan_pc,         \* "open" | "parse" | "visit" | "done" | "raised"
    file_path,       \* the file: unreadable, malformed or parsable
    tree,            \* the parsed tree (<<>> before the parse)
    file_issues,     \* the list returned (<<>> before the return)
    \* ---- concurrent runs of analyze_repository (SpecConc) ----
    conc_pc,         \* per run: "mkdtemp" | "clone" | "scan" | "finally" | "done"
    conc_dir,        \* per run: its temp_dir (0 before mkdtemp)
    conc_disk,       \* per directory name: "absent", or the run whose clone
                     \* is in it (0 for a directory still empty)
    conc_read,       \* per run: the run whose clone it has read (0: none)
    conc_removed,    \* per run: the directory its rmtree removed (0: none)
    conc_foreign,    \* TRUE once an rmtree removed the directory of another
                     \* run that was still using it
    \* ---- run_repository_scan (SpecTask) ----
    task_pc,         \* position in the task
    task_in,         \* the task's arguments and what its calls will do
    task_report,     \* what analyze_repository returned ("none" before)
    db_session,      \* "none" | "open" | "closed"
    task_stored,     \* the rows committed to scan_reports
    task_result,     \* "running", or what the task ended with
    \* ---- the endpoints of main.py (SpecApi) ----
    api_pc,          \* position in the handler
    api_request,     \* the request and what the handler's calls will do
    api_response,    \* "none", or the status and body sent
    api_queue        \* the tasks enqueued with run_repository_scan.delay

osvVars  == <<osv_pc, dependencies, response, queries, requests,
              report_entries, osv_returns>>
riskVars == <<risk_in, risk_out>>
pipeVars == <<pc, temp_dir, created, cloned, files, detected_version,
              parsed_deps, dependency_report, syntax_issues, ai_reply,
              ai_generated_content, final_report, pending, outcome, error,
              osv_posts, listing, scanned, version_files, manifest_file>>
walkVars == <<listing, scanned>>
treeVars == <<version_files, manifest_file>>
detVars  == <<det_pc, repo_path, det_version, returned_at>>
reqVars  == <<req_pc, requirements_path, lines_left, pinned>>
scanVars == <<scan_pc, file_path, tree, file_issues>>
concVars == <<conc_pc, conc_dir, conc_disk, conc_read, conc_removed,
              conc_foreign>>
taskVars == <<task_pc, task_in, task_report, db_session, task_stored,
              task_result>>
apiVars  == <<api_pc, api_request, api_response, api_queue>>
svcVars  == <<concVars, taskVars, apiVars>>
unitVars == <<detVars, reqVars, scanVars, svcVars>>
vars     == <<osvVars, riskVars, pipeVars, unitVars>>

(***************************************************************************)
(* Bounds of the model.                                                    *)
(***************************************************************************)
MaxDeps    == 2   \* longest dependency list
MaxResults == 2   \* longest result list in a response
MaxCalls   == 2   \* calls of check_osv_for_vulnerabilities in a behaviour
MaxFiles   == 2   \* files in a cloned tree
MaxCount   == 5   \* longest list handed to the risk score on its own

Min(a, b) == IF a <= b THEN a ELSE b

SeqsUpTo(S, n) == UNION {[1..k -> S] : k \in 0..n}

(***************************************************************************)
(* Data of the vulnerability lookup.                                       *)
(***************************************************************************)
\* Dependency: identity is the (name, version) pair.
DepKeys == {[name |-> "flask", version |-> "1.0"],
            [name |-> "django", version |-> "2.0"]}

DepLists == SeqsUpTo(DepKeys, MaxDeps)

\* The "vulns" member of one result object: absent (OSV's `{}` for a clean
\* package), null (present but not a list: iterating it raises TypeError),
\* or a list of n vulnerability objects, whose ids are taken to be 1..n.
VulnCounts == {0, 1, 4}
VulnShapes == {[kind |-> "absent", n |-> 0], [kind |-> "null", n |-> 0]}
              \cup {[kind |-> "list", n |-> k] : k \in VulnCounts}

\* One result object. `query` is the query the service answered with it;
\* `echo` says whether the JSON object carries that query as its "query"
\* member (the only thing line 114 can read it from).
Results == [query : DepKeys, echo : BOOLEAN, vulns : VulnShapes]

HttpErrorStatuses == {500}

\* What happens to the one POST of lines 107-109.
Responses ==
    {[kind |-> "network_error", status |-> 0, results |-> <<>>]}
    \cup {[kind |-> "http_error", status |-> s, results |-> <<>>] :
              s \in HttpErrorStatuses}
    \cup {[kind |-> "bad_json", status |-> 200, results |-> <<>>]}
    \cup {[kind |-> "ok", status |-> 200, results |-> r] :
              r \in SeqsUpTo(Results, MaxResults)}

NoResponse == [kind |-> "none", status |-> 0, results |-> <<>>]


(***************************************************************************)
(* check_osv_for_vulnerabilities, src/scanner.py lines 95-155.             *)
(***************************************************************************)
\* The batch built in the reverse of the dependency order.
BuildQueries_Reversed(deps) ==
    [i \in DOMAIN deps |->
        [version |-> deps[Len(deps) + 1 - i].version,
         package |-> [name |-> deps[Len(deps) + 1 - i].name,
                      ecosystem |-> "PyPI"]]]

\* Line 101: one query per dependency, in dependency order.
BuildQueries(deps) ==
    [i \in DOMAIN deps |->
        [version |-> deps[i].version,
         package |-> [name |-> deps[i].name, ecosystem |-> "PyPI"]]]

\* The reason with the slice of lines 120 and 132 left out: every id listed.
VulnReason_AllIds(n) ==
    [class |-> "Vulnerable to",
     ids   |-> [k \in 1..n |-> k],
     more  |-> IF n > 3 THEN n - 3 ELSE 0,
     code  |-> 0]

\* Lines 119-121 and 131-134: the reason built from the n ids of a result.
VulnReason(n) ==
    [class |-> "Vulnerable to",
     ids   |-> [k \in 1..Min(3, n) |-> k],
     more  |-> IF n > 3 THEN n - 3 ELSE 0,
     code  |-> 0]

\* Lines 122 and 137-142.
Finding(dep, n) ==
    [name |-> dep.name, version |-> dep.version,
     status |-> "incompatible", reason |-> VulnReason(n)]

\* Lines 147, 150, 153: the synthetic entry of a failed lookup.
Warning(class, code) ==
    [name |-> "OSV Check Failed", version |-> "", status |-> "warning",
     reason |-> [class |-> class, ids |-> <<>>, more |-> 0, code |-> code]]

\* Lines 118 and 130: `res and "vulns" in res`.
HasVulnsKey(res) == res.vulns.kind # "absent"

\* Line 114: the dict comprehension keeps, for each key, the last result that
\* carries a "query" member with that key; `get` gives None for a key with no
\* such result.
ResultsMapHas(results, key) ==
    \E i \in DOMAIN results : results[i].echo /\ results[i].query = key

ResultsMapGet(results, key) ==
    LET S == {i \in DOMAIN results : results[i].echo /\ results[i].query = key}
        last == CHOOSE i \in S : \A j \in S : j <= i
    IN  results[last]

\* Lines 116-123: the loop over the dependencies when the counts differ.
\* Gives the entries appended and whether the loop raised.
RECURSIVE ReconcileByKey(_, _, _, _)
ReconcileByKey(results, deps, i, acc) ==
    IF i > Len(deps) THEN [entries |-> acc, raised |-> FALSE]
    ELSE LET dep == deps[i]
             key == [name |-> dep.name, version |-> dep.version]
         IN  IF ResultsMapHas(results, key)
                /\ HasVulnsKey(ResultsMapGet(results, key))
             THEN LET result == ResultsMapGet(results, key)
                  IN  IF result.vulns.kind = "null"
                      THEN [entries |-> acc, raised |-> TRUE]
                      ELSE ReconcileByKey(results, deps, i + 1,
                               Append(acc, Finding(dep, result.vulns.n)))
             ELSE ReconcileByKey(results, deps, i + 1, acc)

\* Lines 128-142: the loop over the results when the counts agree.
RECURSIVE ReconcileByPosition(_, _, _, _)
ReconcileByPosition(results, deps, i, acc) ==
    IF i > Len(results) THEN [entries |-> acc, raised |-> FALSE]
    ELSE LET res == results[i]
         IN  IF HasVulnsKey(res)
             THEN IF res.vulns.kind = "null"
                  THEN [entries |-> acc, raised |-> TRUE]
                  ELSE ReconcileByPosition(results, deps, i + 1,
                           Append(acc, Finding(deps[i], res.vulns.n)))
             ELSE ReconcileByPosition(results, deps, i + 1, acc)

\* Line 111: which of the two loops runs.
Reconcile(results, deps) ==
    IF Len(results) # Len(deps)
    THEN ReconcileByKey(results, deps, 1, <<>>)
    ELSE ReconcileByPosition(results, deps, 1, <<>>)

\* HandleResponse with the except clauses replacing the list by nothing: the
\* failure is swallowed without a marker.
HandleResponse_Swallowed(deps, resp) ==
    IF resp.kind = "ok"
    THEN Reconcile(resp.results, deps).entries
    ELSE <<>>

\* Lines 104-155 after the request was issued: the list returned for a
\* response. The except clauses append to the list built so far.
HandleResponse(deps, resp) ==
    CASE resp.kind = "network_error" ->
             <<Warning("network error", 0)>>
      [] resp.kind = "http_error" ->
             <<Warning("API error", resp.status)>>
      [] resp.kind = "bad_json" ->
             <<Warning("Unexpected error", 0)>>
      [] resp.kind = "ok" ->
             LET r == Reconcile(resp.results, deps)
             IN  IF r.raised
                 THEN Append(r.entries, Warning("Unexpected error", 0))
                 ELSE r.entries

\* The guard of the early return dropped: every call issues the request.
IsEmpty_Never(deps) == FALSE

\* Lines 97-98: the guard of the early return.
IsEmpty(deps) == deps = <<>>

\* The whole function: the list returned and the number of requests issued.
check_osv_for_vulnerabilities(deps, resp) ==
    IF IsEmpty(deps)
    THEN [entries |-> <<>>, posts |-> 0]
    ELSE [entries |-> HandleResponse(deps, resp), posts |-> 1]

(***************************************************************************)
(* SpecOsv: calls of check_osv_for_vulnerabilities. The argument and the   *)
(* service's answer are drawn in the initial state; a call may be repeated *)
(* with the same argument and the same answer.                             *)
(***************************************************************************)
OsvIdle ==
    /\ osv_pc = "idle"
    /\ dependencies = <<>>
    /\ response = NoResponse
    /\ queries = <<>>
    /\ requests = 0
    /\ report_entries = <<>>
    /\ osv_returns = <<>>

DetIdle ==
    /\ det_pc = "idle"
    /\ repo_path = <<>>
    /\ det_version = <<>>
    /\ returned_at = "none"

ReqIdle ==
    /\ req_pc = "idle"
    /\ requirements_path = <<>>
    /\ lines_left = <<>>
    /\ pinned = <<>>

ScanIdle ==
    /\ scan_pc = "idle"
    /\ file_path = <<>>
    /\ tree = <<>>
    /\ file_issues = <<>>

ConcIdle ==
    /\ conc_pc = <<>>
    /\ conc_dir = <<>>
    /\ conc_disk = <<>>
    /\ conc_read = <<>>
    /\ conc_removed = <<>>
    /\ conc_foreign = FALSE

TaskIdle ==
    /\ task_pc = "idle"
    /\ task_in = <<>>
    /\ task_report = <<>>
    /\ db_session = "none"
    /\ task_stored = <<>>
    /\ task_result = <<>>

ApiIdle ==
    /\ api_pc = "idle"
    /\ api_request = <<>>
    /\ api_response = <<>>
    /\ api_queue = <<>>

\* The specifications of the task, the endpoints and the concurrent runs at
\* rest.
SvcIdle == ConcIdle /\ TaskIdle /\ ApiIdle

\* The single-function specifications at rest.
UnitIdle == DetIdle /\ ReqIdle /\ ScanIdle /\ SvcIdle

RiskIdle ==
    /\ risk_in = <<>>
    /\ risk_out = <<>>

NoReport == [repoName |-> "none"]

PipeIdle ==
    /\ pc = "idle"
    /\ temp_dir = FALSE
    /\ created = FALSE
    /\ cloned = FALSE
    /\ files = <<>>
    /\ detected_version = "unset"
    /\ parsed_deps = <<>>
    /\ dependency_report = <<>>
    /\ syntax_issues = <<>>
    /\ ai_reply = "unset"
    /\ ai_generated_content = [kind |-> "unset"]
    /\ final_report = NoReport
    /\ pending = "none"
    /\ outcome = "running"
    /\ error = "none"
    /\ osv_posts = 0
    /\ listing = <<>>
    /\ scanned = <<>>
    /\ version_files = "unknown"
    /\ manifest_file = "unknown"

InitOsv ==
    /\ osv_pc = "call"
    /\ dependencies \in DepLists
    /\ response \in Responses
    /\ queries = <<>>
    /\ requests = 0
    /\ report_entries = <<>>
    /\ osv_returns = <<>>
    /\ RiskIdle
    /\ PipeIdle
    /\ UnitIdle

\* Lines 97-98.
OsvEarlyReturn ==
    /\ osv_pc = "call"
    /\ IsEmpty(dependencies)
    /\ report_entries' = <<>>
    /\ osv_returns' = Append(osv_returns, <<>>)
    /\ osv_pc' = "done"
    /\ UNCHANGED <<dependencies, response, queries, requests>>
    /\ UNCHANGED <<riskVars, pipeVars, unitVars>>

\* Lines 101-107: build the batch and issue the one request.
OsvPost ==
    /\ osv_pc = "call"
    /\ ~IsEmpty(dependencies)
    /\ queries' = BuildQueries(dependencies)
    /\ requests' = requests + 1
    /\ report_entries' = <<>>
    /\ osv_pc' = "response"
    /\ UNCHANGED <<dependencies, response, osv_returns>>
    /\ UNCHANGED <<riskVars, pipeVars, unitVars>>

\* Lines 107-108 raising, or line 109 raising: an except clause appends the
\* warning and line 155 returns.
OsvFail ==
    /\ osv_pc = "response"
    /\ response.kind \in {"network_error", "http_error", "bad_json"}
    /\ report_entries' = HandleResponse(dependencies, response)
    /\ osv_returns' = Append(osv_returns, report_entries')
    /\ osv_pc' = "done"
    /\ UNCHANGED <<dependencies, response, queries, requests>>
    /\ UNCHANGED <<riskVars, pipeVars, unitVars>>

\* Lines 109-142 (and 151-153 when reconciliation raises), then line 155.
OsvReconcile ==
    /\ osv_pc = "response"
    /\ response.kind = "ok"
    /\ report_entries' = HandleResponse(dependencies, response)
    /\ osv_returns' = Append(osv_returns, report_entries')
    /\ osv_pc' = "done"
    /\ UNCHANGED <<dependencies, response, queries, requests>>
    /\ UNCHANGED <<riskVars, pipeVars, unitVars>>

\* The caller calls again with the same argument; the service answers alike.
OsvCallAgain ==
    /\ osv_pc = "done"
    /\ Len(osv_returns) < MaxCalls
    /\ osv_pc' = "call"
    /\ report_entries' = <<>>
    /\ UNCHANGED <<dependencies, response, queries, requests, osv_returns>>
    /\ UNCHANGED <<riskVars, pipeVars, unitVars>>

NextOsv ==
    \/ OsvEarlyReturn
    \/ OsvPost
    \/ OsvFail
    \/ OsvReconcile
    \/ OsvCallAgain

SpecOsv == InitOsv /\ [][NextOsv]_vars


(***************************************************************************)
(* Properties of check_osv_for_vulnerabilities (under SpecOsv).            *)
(***************************************************************************)
KeyOf(e) == [name |-> e.name, version |-> e.version]

KeysOf(entries) == [i \in DOMAIN entries |-> KeyOf(entries[i])]

\* A result lists vulnerabilities: its "vulns" is a list with an element.
ListsVulns(res) == res.vulns.kind = "list" /\ res.vulns.n > 0

\* The response makes reconciliation raise: a result the loop reads has a
\* "vulns" member that is no list.
NullReached(results, deps) ==
    IF Len(results) = Len(deps)
    THEN \E i \in DOMAIN results : results[i].vulns.kind = "null"
    ELSE \E d \in DOMAIN deps :
            \E i \in DOMAIN results :
                /\ results[i].echo /\ results[i].query = deps[d]
                /\ results[i].vulns.kind = "null"
                /\ \A j \in DOMAIN results :
                      (results[j].echo /\ results[j].query = deps[d]) => j <= i

LookupFailed ==
    \/ response.kind \in {"network_error", "http_error", "bad_json"}
    \/ response.kind = "ok" /\ NullReached(response.results, dependencies)

OsvReturned == osv_pc = "done" /\ dependencies # <<>>

OsvSucceeded == OsvReturned /\ ~LookupFailed

FailureClass(resp) ==
    CASE resp.kind = "network_error" -> "network error"
      [] resp.kind = "http_error" -> "API error"
      [] OTHER -> "Unexpected error"

\* C6 as stated: after a failed lookup on a non-empty list the returned list
\* holds exactly one finding, a warning naming the failure class.
C6_ExactlyOneFinding ==
    (OsvReturned /\ LookupFailed) =>
        /\ Len(report_entries) = 1
        /\ report_entries[1].status = "warning"
        /\ report_entries[1].reason.class = FailureClass(response)

\* C6 amended: after a failed lookup on a non-empty list the returned list
\* holds exactly one warning, as its last entry, naming the failure class;
\* it is the only entry unless the failure interrupted reconciliation, and
\* then the entries before it are the incompatible findings emitted so far.
C6_OneWarningLast ==
    (OsvReturned /\ LookupFailed) =>
        LET n == Len(report_entries)
        IN  /\ n >= 1
            /\ report_entries[n].status = "warning"
            /\ report_entries[n].name = "OSV Check Failed"
            /\ report_entries[n].reason.class = FailureClass(response)
            /\ \A i \in 1..(n - 1) : report_entries[i].status = "incompatible"
            /\ response.kind # "ok" => n = 1

\* Reconciliation raised after a finding had been appended.
C6_Witness ==
    /\ OsvReturned
    /\ response.kind = "ok"
    /\ NullReached(response.results, dependencies)
    /\ Len(report_entries) = 2
    /\ report_entries[1].status = "incompatible"

\* C7: a call with an empty dependency list returns the empty list and issues
\* no request, however often it is repeated.
C7_EmptyIsEmptyNoRequest ==
    dependencies = <<>> =>
        /\ requests = 0
        /\ queries = <<>>
        /\ \A i \in DOMAIN osv_returns : osv_returns[i] = <<>>

\* The call on the empty list has returned twice.
C7_Witness ==
    /\ dependencies = <<>>
    /\ osv_pc = "done"
    /\ Len(osv_returns) = 2

\* C8: when the counts differ and reconciliation completes, every dependency
\* that some result answers with a list of vulnerabilities has a finding
\* under its (name, version), and every finding is under the (name, version)
\* of a dependency that some result with a "vulns" member answers.
C8_NoneDroppedNoneMisattributed ==
    (OsvSucceeded /\ Len(response.results) # Len(dependencies)) =>
        /\ \A d \in DOMAIN dependencies :
              (\E i \in DOMAIN response.results :
                  /\ response.results[i].query = dependencies[d]
                  /\ ListsVulns(response.results[i]))
              => \E e \in DOMAIN report_entries :
                    KeyOf(report_entries[e]) = dependencies[d]
        /\ \A e \in DOMAIN report_entries :
              \E i \in DOMAIN response.results :
                  /\ response.results[i].query = KeyOf(report_entries[e])
                  /\ HasVulnsKey(response.results[i])

\* The dependencies, in order, whose same-index result lists vulnerabilities.
RECURSIVE VulnerableByPosition(_, _, _)
VulnerableByPosition(results, deps, i) ==
    IF i > Len(deps) THEN <<>>
    ELSE IF ListsVulns(results[i])
         THEN <<deps[i]>> \o VulnerableByPosition(results, deps, i + 1)
         ELSE VulnerableByPosition(results, deps, i + 1)

\* C9: when the counts agree and reconciliation completes, the findings are,
\* in dependency order, the (name, version) of exactly the dependencies whose
\* same-index result lists vulnerabilities.
C9_Positional ==
    (OsvSucceeded /\ Len(response.results) = Len(dependencies)) =>
        KeysOf(report_entries)
            = VulnerableByPosition(response.results, dependencies, 1)

\* The results that answer the dependency at index d: the same-index one when
\* the counts agree, those answering its (name, version) when they differ.
ResultsFor(results, deps, d) ==
    IF Len(results) = Len(deps)
    THEN {results[d]}
    ELSE {results[i] : i \in {j \in DOMAIN results : results[j].query = deps[d]}}

\* C10: on a successful lookup every finding is "incompatible", a dependency
\* has a finding iff a result of it lists at least one vulnerability, each
\* such dependency occurrence has exactly one, and the findings are no more
\* than the dependencies.
C10_OnePerVulnerableDependency ==
    OsvSucceeded =>
        LET vulnerable ==
                {d \in DOMAIN dependencies :
                    \E r \in ResultsFor(response.results, dependencies, d) :
                        ListsVulns(r)}
        IN  /\ \A e \in DOMAIN report_entries :
                  report_entries[e].status = "incompatible"
            /\ Len(report_entries) = Cardinality(vulnerable)
            /\ \A e \in DOMAIN report_entries :
                  \E d \in vulnerable :
                      KeyOf(report_entries[e]) = dependencies[d]
            /\ \A d \in vulnerable :
                  \E e \in DOMAIN report_entries :
                      KeyOf(report_entries[e]) = dependencies[d]
            /\ Len(report_entries) <= Len(dependencies)


\* The identifiers of a result that lists n vulnerabilities, in result order.
VulnIds(n) == [k \in 1..n |-> k]

\* The result a finding was built from: when the counts agree, the result at
\* the position of the finding's dependency (the j-th finding belongs to the
\* j-th result that has a "vulns" member); when they differ, the result kept
\* for the finding's (name, version).
RECURSIVE NthWithVulns(_, _, _)
NthWithVulns(results, i, j) ==
    IF HasVulnsKey(results[i])
    THEN IF j = 1 THEN i ELSE NthWithVulns(results, i + 1, j - 1)
    ELSE NthWithVulns(results, i + 1, j)

SourceResult(j) ==
    IF Len(response.results) = Len(dependencies)
    THEN response.results[NthWithVulns(response.results, 1, j)]
    ELSE ResultsMapGet(response.results, KeyOf(report_entries[j]))

\* C11: on a successful lookup the reason of each finding lists the first
\* min(3, n) identifiers of the result it was built from, in result order and
\* none beyond the third, and states the remainder n - 3 exactly when n > 3.
C11_ReasonListsFirstThree ==
    OsvSucceeded =>
        \A j \in DOMAIN report_entries :
            LET n == SourceResult(j).vulns.n
                reason == report_entries[j].reason
            IN  /\ reason.class = "Vulnerable to"
                /\ reason.ids = SubSeq(VulnIds(n), 1, Min(3, n))
                /\ Len(reason.ids) <= 3
                /\ (n > 3) <=> (reason.more > 0)
                /\ n > 3 => reason.more = n - 3

\* A finding for a result with more than three vulnerabilities next to one
\* for a result with fewer.
C11_Witness ==
    /\ OsvSucceeded
    /\ Len(report_entries) = 2
    /\ report_entries[1].reason.more = 1
    /\ Len(report_entries[1].reason.ids) = 3
    /\ report_entries[2].reason.more = 0
    /\ Len(report_entries[2].reason.ids) = 1

\* Calls of check_osv_for_vulnerabilities begun so far.
OsvCalls == Len(osv_returns) + (IF osv_pc = "response" THEN 1 ELSE 0)

\* C27: there are never more requests than calls (one per call on a list
\* that is not empty, whether the request failed or not), and the batch of a
\* request holds exactly one query per dependency, in dependency order.
C27_OneBatchRequestPerCall ==
    /\ requests <= OsvCalls
    /\ dependencies # <<>> => requests = OsvCalls
    /\ requests > 0 =>
          /\ Len(queries) = Len(dependencies)
          /\ \A i \in DOMAIN dependencies :
                /\ queries[i].package.name = dependencies[i].name
                /\ queries[i].version = dependencies[i].version
                /\ queries[i].package.ecosystem = "PyPI"

\* Two calls on two different dependencies whose request failed both times:
\* two requests, none repeated.
C27_Witness ==
    /\ osv_pc = "done"
    /\ Len(dependencies) = 2
    /\ dependencies[1] # dependencies[2]
    /\ response.kind = "network_error"
    /\ Len(osv_returns) = 2
    /\ requests = 2

(***************************************************************************)
(* The risk score, src/scanner.py lines 287-289.                           *)
(***************************************************************************)
\* The score with the cap of line 287 left out.
risk_score_uncapped(deps_report, issues) ==
    IF deps_report = <<>> /\ issues = <<>>
    THEN 0
    ELSE Len(deps_report) * 25 + Len(issues) * 10

\* The score with the two weights of line 287 exchanged.
risk_score_swapped(deps_report, issues) ==
    IF deps_report = <<>> /\ issues = <<>>
    THEN 0
    ELSE Min(Len(deps_report) * 10 + Len(issues) * 25, 95)

\* The score over real findings only: warning entries and the entries of
\* files that could not be parsed or read are left out of the sum.
risk_score_RealFindingsOnly(deps_report, issues) ==
    LET real_deps == SelectSeq(deps_report, LAMBDA e : e.status # "warning")
        real_issues ==
            SelectSeq(issues,
                      LAMBDA e : e.type \notin {"Syntax Error", "Analysis Error"})
    IN  IF real_deps = <<>> /\ real_issues = <<>>
        THEN 0
        ELSE Min(Len(real_deps) * 25 + Len(real_issues) * 10, 95)

risk_score(deps_report, issues) ==
    LET capped == Min(Len(deps_report) * 25 + Len(issues) * 10, 95)
    IN  IF deps_report = <<>> /\ issues = <<>> THEN 0 ELSE capped

(***************************************************************************)
(* SpecRisk: the score of two drawn pairs of lists. Only the lengths of    *)
(* the lists are read, so their entries are placeholders.                  *)
(***************************************************************************)
ListsUpTo(n) == {[i \in 1..k |-> "entry"] : k \in 0..n}

RiskInputs == [deps : ListsUpTo(MaxCount), issues : ListsUpTo(MaxCount)]

InitRisk ==
    /\ risk_in \in [1..2 -> RiskInputs]
    /\ risk_out = <<>>
    /\ OsvIdle
    /\ PipeIdle
    /\ UnitIdle

ScoreBoth ==
    /\ risk_out = <<>>
    /\ risk_out' = [i \in 1..2 |->
                       risk_score(risk_in[i].deps, risk_in[i].issues)]
    /\ UNCHANGED risk_in
    /\ UNCHANGED <<osvVars, pipeVars, unitVars>>

NextRisk == ScoreBoth

SpecRisk == InitRisk /\ [][NextRisk]_vars

Total(in) == Len(in.deps) + Len(in.issues)

\* C5 as stated: of two scored pairs of lists, the one with the larger total
\* length never has the smaller score; no score exceeds 95; the score of two
\* empty lists is 0.
C5_MonotoneInTotal ==
    risk_out # <<>> =>
        /\ Total(risk_in[1]) < Total(risk_in[2]) => risk_out[1] <= risk_out[2]
        /\ \A i \in 1..2 : risk_out[i] <= 95
        /\ \A i \in 1..2 : Total(risk_in[i]) = 0 => risk_out[i] = 0

\* C5 amended: the score is non-decreasing in each list's length separately
\* (a pair with no fewer dependencies and no fewer issues never has a smaller
\* score), saturates at 95 (never above, and exactly 95 once the weighted sum
\* reaches it), and is exactly 0 when both lists are empty.
C5_MonotoneInEachLength ==
    risk_out # <<>> =>
        /\ (/\ Len(risk_in[1].deps) <= Len(risk_in[2].deps)
            /\ Len(risk_in[1].issues) <= Len(risk_in[2].issues))
           => risk_out[1] <= risk_out[2]
        /\ \A i \in 1..2 : risk_out[i] \in 0..95
        /\ \A i \in 1..2 :
              25 * Len(risk_in[i].deps) + 10 * Len(risk_in[i].issues) >= 95
              => risk_out[i] = 95
        /\ \A i \in 1..2 : Total(risk_in[i]) = 0 => risk_out[i] = 0

\* A pair below the cap scored against a larger pair that saturates.
C5_Witness ==
    /\ risk_out # <<>>
    /\ Len(risk_in[1].deps) < Len(risk_in[2].deps)
    /\ Len(risk_in[1].issues) < Len(risk_in[2].issues)
    /\ risk_out[1] \in 1..94
    /\ risk_out[2] = 95
    /\ 25 * Len(risk_in[2].deps) + 10 * Len(risk_in[2].issues) > 95


(***************************************************************************)
(* analyze_repository, src/scanner.py lines 255-308, and the summarizer it *)
(* calls, src/ai_service.py lines 35-64.                                   *)
(***************************************************************************)
repo_name == "owner/repo"

\* The pinned requirements of the cloned tree, as parse_pinned_requirements
\* (line 264) returns them: the first n entries of an alternating manifest.
PinnedManifest(n) ==
    [i \in 1..n |->
        IF i % 2 = 1 THEN [name |-> "flask", version |-> "1.0"]
                     ELSE [name |-> "django", version |-> "2.0"]]

RepoDepLists == {PinnedManifest(n) : n \in 0..MaxDeps}

\* What detect_python_version (line 262) can return for a cloned tree.
Versions == {"Undetermined", "3.9.10"}

\* A file of the cloned tree: its path relative to the workspace root (its
\* position in the walk), whether its name ends in ".py", and what
\* analyze_python_file finds in it: nothing ("clean"), a parse failure, a
\* read failure, or a tree on which the visitor appends three issues.
FileShapes ==
    {[py |-> FALSE, content |-> "clean"]}
    \cup [py : {TRUE},
          content : {"clean", "syntax_error", "unreadable", "deprecated"}]

FileLists ==
    {[i \in DOMAIN f |->
         [path |-> i, py |-> f[i].py, content |-> f[i].content]] :
        f \in SeqsUpTo(FileShapes, MaxFiles)}

\* analyze_python_file (lines 214-250) on one file: the issues it returns,
\* each with the absolute path of the file in its `file` field.
AbsPath(path) == [root |-> "temp_dir", rel |-> path]

Issue(type, file) == [type |-> type, file |-> file]

\* analyze_python_file reporting a file it parsed and found nothing in.
analyze_python_file_FlagsClean(f) ==
    <<Issue("Analysis Error", AbsPath(f.path))>>

analyze_python_file(f) ==
    CASE f.content = "clean" -> <<>>
      [] f.content = "syntax_error" ->
             <<Issue("Syntax Error", AbsPath(f.path))>>
      [] f.content = "unreadable" ->
             <<Issue("Analysis Error", AbsPath(f.path))>>
      [] f.content = "deprecated" ->
             <<Issue("Print Statement Syntax (Python 2)", AbsPath(f.path)),
               Issue("Old-style raise statement (Python 2)", AbsPath(f.path)),
               Issue("Print Statement Syntax (Python 2)", AbsPath(f.path))>>

\* The test of line 270 left out: every file of the walk is scanned.
IsSource_AnyFile(f) == TRUE

\* Line 270: file.endswith('.py').
IsSource(f) == f.py

\* Lines 272-275: os.path.relpath and the rewrite of each issue's file.
Relativize(issues) ==
    [i \in DOMAIN issues |-> Issue(issues[i].type, issues[i].file.rel)]

\* What the summarizer's call of the model (ai_service.py lines 51-55) ends
\* with: it raises, or its text is no JSON, a JSON value that is no object,
\* a JSON object without the three keys, or a JSON object with them.
SummarizerReplies ==
    {"raises", "not_json", "json_not_object", "json_empty_object",
     "json_full"}

\* ai_service.py lines 56-64: json.loads and the JSONDecodeError fallback.
generate_report_summary_and_steps(reply) ==
    CASE reply = "raises" -> [kind |-> "raised"]
      [] reply = "not_json" ->
             [kind |-> "dict", keys |-> TRUE,
              summary |-> "Analysis completed, but structured output failed.",
              effort |-> "Unknown",
              steps |-> <<"Review report manually.">>]
      [] reply = "json_not_object" -> [kind |-> "list"]
      [] reply = "json_empty_object" ->
             [kind |-> "dict", keys |-> FALSE,
              summary |-> "", effort |-> "", steps |-> <<>>]
      [] reply = "json_full" ->
             [kind |-> "dict", keys |-> TRUE,
              summary |-> "model summary", effort |-> "Low",
              steps |-> <<"model step">>]

\* Lines 295, 300, 301: dict.get with its default.
Get(content, key, default) ==
    IF content.keys THEN content[key] ELSE default

\* Lines 291-303 with the target version taken from the summarizer's output.
BuildReport_TargetFromSummarizer(version, deps_report, issues, content) ==
    [repoName      |-> repo_name,
     pythonVersion |-> version,
     riskScore     |-> risk_score(deps_report, issues),
     summary       |-> Get(content, "summary", "AI summary generation failed."),
     dependencies  |-> deps_report,
     syntaxIssues  |-> issues,
     recommendations |->
        [targetVersion   |-> Get(content, "effort", "Python 3.11+"),
         estimatedEffort |-> Get(content, "effort", "Medium"),
         steps |-> Get(content, "steps",
                       <<"Review findings and prioritize fixes.">>)]]

\* Lines 291-303.
BuildReport(version, deps_report, issues, content) ==
    [repoName      |-> repo_name,
     pythonVersion |-> version,
     riskScore     |-> risk_score(deps_report, issues),
     summary       |-> Get(content, "summary", "AI summary generation failed."),
     dependencies  |-> deps_report,
     syntaxIssues  |-> issues,
     recommendations |->
        [targetVersion   |-> "Python 3.11+",
         estimatedEffort |-> Get(content, "effort", "Medium"),
         steps |-> Get(content, "steps",
                       <<"Review findings and prioritize fixes.">>)]]

\* Lines 259 and 306: the finally clause runs whatever the try block ended
\* with (a return or an exception).
CleanupRuns_OnReturnOnly(ended) == ended = "return"

CleanupRuns(ended) == TRUE

\* The summarizer called while files of the walk are still to be scanned.
WalkExhausted_Early(remaining) == TRUE

\* Lines 267-276: the loops over os.walk end when no file is left.
WalkExhausted(remaining) == remaining = <<>>

(***************************************************************************)
(* Spec: one run of analyze_repository.                                    *)
(***************************************************************************)
Init ==
    /\ pc = "mkdtemp"
    /\ temp_dir = FALSE
    /\ created = FALSE
    /\ cloned = FALSE
    /\ files = <<>>
    /\ detected_version = "unset"
    /\ parsed_deps = <<>>
    /\ dependency_report = <<>>
    /\ syntax_issues = <<>>
    /\ ai_reply = "unset"
    /\ ai_generated_content = [kind |-> "unset"]
    /\ final_report = NoReport
    /\ pending = "none"
    /\ outcome = "running"
    /\ error = "none"
    /\ osv_posts = 0
    /\ listing = <<>>
    /\ scanned = <<>>
    /\ version_files = "unknown"
    /\ manifest_file = "unknown"
    /\ OsvIdle
    /\ RiskIdle
    /\ UnitIdle

\* Line 256: tempfile.mkdtemp creates the workspace.
Mkdtemp ==
    /\ pc = "mkdtemp"
    /\ temp_dir' = TRUE
    /\ created' = TRUE
    /\ pc' = "clone"
    /\ UNCHANGED <<cloned, files, detected_version, parsed_deps,
                   dependency_report, syntax_issues, ai_reply,
                   ai_generated_content, final_report, pending, outcome,
                   error, osv_posts>>
    /\ UNCHANGED <<osvVars, riskVars, unitVars, walkVars, treeVars>>

\* Line 256 raising (no directory could be created): outside the try block.
MkdtempFails ==
    /\ pc = "mkdtemp"
    /\ pc' = "done"
    /\ outcome' = "raised"
    /\ error' = "mkdtemp failed"
    /\ UNCHANGED <<temp_dir, created, cloned, files, detected_version,
                   parsed_deps, dependency_report, syntax_issues, ai_reply,
                   ai_generated_content, final_report, pending, osv_posts>>
    /\ UNCHANGED <<osvVars, riskVars, unitVars, walkVars, treeVars>>

\* Line 260 returning: the tree is in the workspace.
CloneOk ==
    /\ pc = "clone"
    /\ cloned' = TRUE
    /\ pc' = "detect"
    /\ UNCHANGED <<files, temp_dir, created, detected_version, parsed_deps,
                   dependency_report, syntax_issues, ai_reply,
                   ai_generated_content, final_report, pending, outcome,
                   error, osv_posts>>
    /\ UNCHANGED <<osvVars, riskVars, unitVars, walkVars, treeVars>>

\* Line 260 raising (bad credential, repository not found, network).
CloneFails ==
    /\ pc = "clone"
    /\ pending' = "clone failed"
    /\ pc' = "finally"
    /\ UNCHANGED <<temp_dir, created, cloned, files, detected_version,
                   parsed_deps, dependency_report, syntax_issues, ai_reply,
                   ai_generated_content, final_report, outcome, error,
                   osv_posts>>
    /\ UNCHANGED <<osvVars, riskVars, unitVars, walkVars, treeVars>>

\* Line 262: detect_python_version never raises; with none of its three
\* files in the clone it returns "Undetermined" (lines 24, 37, 46 and 63).
DetectVersion ==
    /\ pc = "detect"
    /\ \/ /\ version_files' = "none"
          /\ detected_version' = "Undetermined"
       \/ /\ version_files' = "some"
          /\ detected_version' \in Versions
    /\ pc' = "parse"
    /\ UNCHANGED <<temp_dir, created, cloned, files, parsed_deps,
                   dependency_report, syntax_issues, ai_reply,
                   ai_generated_content, final_report, pending, outcome,
                   error, osv_posts, manifest_file>>
    /\ UNCHANGED <<osvVars, riskVars, unitVars, walkVars>>

\* Lines 263-264: parse_pinned_requirements never raises; without a
\* requirements.txt in the clone it returns the empty list (lines 68-70).
ParseRequirements ==
    /\ pc = "parse"
    /\ \/ /\ manifest_file' = "missing"
          /\ parsed_deps' = <<>>
       \/ /\ manifest_file' = "present"
          /\ parsed_deps' \in RepoDepLists
    /\ pc' = "osv"
    /\ UNCHANGED <<temp_dir, created, cloned, files, detected_version,
                   dependency_report, syntax_issues, ai_reply,
                   ai_generated_content, final_report, pending, outcome,
                   error, osv_posts, version_files>>
    /\ UNCHANGED <<osvVars, riskVars, unitVars, walkVars>>

\* Line 265: the whole of check_osv_for_vulnerabilities.
CheckOsv ==
    /\ pc = "osv"
    /\ \E resp \in Responses :
          LET r == check_osv_for_vulnerabilities(parsed_deps, resp)
          IN  /\ dependency_report' = r.entries
              /\ osv_posts' = osv_posts + r.posts
    /\ pc' = "list"
    /\ UNCHANGED <<temp_dir, created, cloned, files, detected_version,
                   parsed_deps, syntax_issues, ai_reply,
                   ai_generated_content, final_report, pending, outcome,
                   error>>
    /\ UNCHANGED <<osvVars, riskVars, unitVars, walkVars, treeVars>>

\* Lines 267-268: os.walk lists the files of the cloned tree (the content of
\* the tree is drawn here, where it is first read).
ListTree ==
    /\ pc = "list"
    /\ files' \in FileLists
    /\ listing' = files'
    /\ syntax_issues' = <<>>
    /\ pc' = "walk"
    /\ UNCHANGED <<temp_dir, created, cloned, detected_version, parsed_deps,
                   dependency_report, ai_reply, ai_generated_content,
                   final_report, pending, outcome, error, osv_posts, scanned>>
    /\ UNCHANGED <<osvVars, riskVars, unitVars, treeVars>>

\* Lines 268-276, one file of the walk.
WalkFile ==
    /\ pc = "walk"
    /\ files # <<>>
    /\ LET f == Head(files)
       IN  IF IsSource(f)
           THEN /\ scanned' = Append(scanned, AbsPath(f.path))
                /\ syntax_issues' =
                       syntax_issues \o Relativize(analyze_python_file(f))
           ELSE UNCHANGED <<scanned, syntax_issues>>
    /\ files' = Tail(files)
    /\ UNCHANGED <<pc, temp_dir, created, cloned, detected_version,
                   parsed_deps, dependency_report, ai_reply,
                   ai_generated_content, final_report, pending, outcome,
                   error, osv_posts, listing>>
    /\ UNCHANGED <<osvVars, riskVars, unitVars, treeVars>>

\* Line 285, asyncio.run of the summarizer: its value is bound, or its
\* exception leaves the try block.
Summarize ==
    /\ pc = "walk"
    /\ WalkExhausted(files)
    /\ \E reply \in SummarizerReplies :
          LET r == generate_report_summary_and_steps(reply)
          IN  /\ ai_reply' = reply
              /\ IF r.kind = "raised"
                 THEN /\ pending' = "summarizer raised"
                      /\ pc' = "finally"
                      /\ UNCHANGED ai_generated_content
                 ELSE /\ ai_generated_content' = r
                      /\ pc' = "assemble"
                      /\ UNCHANGED pending
    /\ UNCHANGED <<temp_dir, created, cloned, files, detected_version,
                   parsed_deps, dependency_report, syntax_issues,
                   final_report, outcome, error, osv_posts>>
    /\ UNCHANGED <<osvVars, riskVars, unitVars, walkVars, treeVars>>

\* Lines 287-304: the score, the report and the return; `.get` on a value
\* that is no dict raises AttributeError.
Assemble ==
    /\ pc = "assemble"
    /\ IF ai_generated_content.kind = "dict"
       THEN /\ final_report' = BuildReport(detected_version, dependency_report,
                                           syntax_issues, ai_generated_content)
            /\ pending' = "return"
       ELSE /\ pending' = "report assembly raised"
            /\ UNCHANGED final_report
    /\ pc' = "finally"
    /\ UNCHANGED <<temp_dir, created, cloned, files, detected_version,
                   parsed_deps, dependency_report, syntax_issues, ai_reply,
                   ai_generated_content, outcome, error, osv_posts>>
    /\ UNCHANGED <<osvVars, riskVars, unitVars, walkVars, treeVars>>

\* What the call ends with when the finally clause itself raised nothing.
Finish(ended) ==
    /\ outcome' = IF ended = "return" THEN "returned" ELSE "raised"
    /\ error' = IF ended = "return" THEN "none" ELSE ended

\* Lines 306-308: rmtree removes the workspace, or raises and leaves it; its
\* exception replaces the return value or the exception in flight.
Finally ==
    /\ pc = "finally"
    /\ IF CleanupRuns(pending) /\ temp_dir
       THEN \/ /\ temp_dir' = FALSE
               /\ Finish(pending)
            \/ /\ temp_dir' = TRUE
               /\ outcome' = "raised"
               /\ error' = "rmtree failed"
       ELSE /\ UNCHANGED temp_dir
            /\ Finish(pending)
    /\ pc' = "done"
    /\ UNCHANGED <<created, cloned, files, detected_version, parsed_deps,
                   dependency_report, syntax_issues, ai_reply,
                   ai_generated_content, final_report, pending, osv_posts>>
    /\ UNCHANGED <<osvVars, riskVars, unitVars, walkVars, treeVars>>

Next ==
    \/ Mkdtemp
    \/ MkdtempFails
    \/ CloneOk
    \/ CloneFails
    \/ DetectVersion
    \/ ParseRequirements
    \/ CheckOsv
    \/ ListTree
    \/ WalkFile
    \/ Summarize
    \/ Assemble
    \/ Finally

Spec == Init /\ [][Next]_vars

(***************************************************************************)
(* Properties of analyze_repository (under Spec).                          *)
(***************************************************************************)
Exited == created /\ outcome # "running"

\* C1 as stated: once a run that created its workspace has returned or
\* raised, the workspace directory no longer exists.
C1_WorkspaceGone == Exited => ~temp_dir

\* C1 amended: once a run that created its workspace has returned or raised,
\* the workspace directory no longer exists, unless its removal itself
\* failed, and then the call raised the removal's error.
C1_WorkspaceGoneUnlessRemovalFailed ==
    Exited => (~temp_dir \/ (outcome = "raised" /\ error = "rmtree failed"))

\* A failing run (the clone failed) has ended with its workspace removed.
C1_Witness ==
    /\ Exited
    /\ ~cloned
    /\ outcome = "raised"
    /\ error = "clone failed"
    /\ ~temp_dir

\* C2: a run whose clone succeeded returns a complete report, whatever
\* failed after the clone, and a run that raises is one whose clone failed.
C2_OnlyCloneFailureAborts ==
    Exited =>
        /\ cloned => (outcome = "returned" /\ final_report # NoReport)
        /\ outcome = "raised" => ~cloned

SummarizerFailed ==
    ai_reply \in {"raises", "not_json", "json_not_object", "json_empty_object"}

\* C3: when the summarizer failed, the run returns a report with the default
\* summary, effort and single review step.
C3_SummarizerFailureGivesDefaults ==
    (Exited /\ SummarizerFailed) =>
        /\ outcome = "returned"
        /\ final_report.summary = "AI summary generation failed."
        /\ final_report.recommendations.estimatedEffort = "Medium"
        /\ final_report.recommendations.steps
              = <<"Review findings and prioritize fixes.">>

\* C4: the riskScore of a returned report is in 0..95, is 0 exactly when the
\* report's dependencies and syntaxIssues are both empty, and is otherwise
\* min(95, 25*|dependencies| + 10*|syntaxIssues|).
C4_RiskScoreOfReport ==
    outcome = "returned" =>
        LET d == Len(final_report.dependencies)
            s == Len(final_report.syntaxIssues)
        IN  /\ final_report.riskScore \in 0..95
            /\ final_report.riskScore = 0 <=> (d = 0 /\ s = 0)
            /\ (d > 0 \/ s > 0) =>
                  final_report.riskScore = Min(95, 25 * d + 10 * s)

\* A returned report whose weighted sum exceeds the cap.
C4_Witness ==
    /\ outcome = "returned"
    /\ final_report.riskScore = 95
    /\ 25 * Len(final_report.dependencies)
         + 10 * Len(final_report.syntaxIssues) > 95
    /\ final_report.dependencies # <<>>
    /\ final_report.syntaxIssues # <<>>

\* The absolute paths of the source files among `fs`, in the order of the
\* walk.
SourcePaths(fs) ==
    LET src == SelectSeq(fs, LAMBDA f : f.py)
    IN  [i \in DOMAIN src |-> AbsPath(src[i].path)]

\* The files of the listing the walk has been through.
WalkedSoFar == SubSeq(listing, 1, Len(listing) - Len(files))

WalkDone == cloned /\ pc \notin {"detect", "parse", "osv", "list"} /\ files = <<>>

\* Every issue names, by its path relative to the workspace root, a source
\* file of the listing in which analyze_python_file finds an issue of that
\* type.
FromItsFile(found) ==
    \A k \in DOMAIN found :
        \E i \in DOMAIN listing :
            /\ listing[i].py
            /\ found[k].file = listing[i].path
            /\ \E j \in DOMAIN analyze_python_file(listing[i]) :
                  analyze_python_file(listing[i])[j].type = found[k].type

\* C19: after a successful clone every file of the workspace whose name ends
\* in ".py" is handed to analyze_python_file exactly once and no other file
\* is; every issue of the report carries the path of its file relative to
\* the workspace root.
C19_EachSourceFileOnce ==
    cloned =>
        /\ scanned = SourcePaths(WalkedSoFar)
        /\ WalkDone => scanned = SourcePaths(listing)
        /\ FromItsFile(syntax_issues)
        /\ final_report # NoReport =>
              /\ final_report.syntaxIssues = syntax_issues
              /\ FromItsFile(final_report.syntaxIssues)

\* A returned report over a tree with a file that is no source file and a
\* source file with three issues.
C19_Witness ==
    /\ outcome = "returned"
    /\ Len(listing) = 2
    /\ ~listing[1].py
    /\ listing[2].py /\ listing[2].content = "deprecated"
    /\ scanned = <<AbsPath(2)>>
    /\ Len(final_report.syntaxIssues) = 3
    /\ \A k \in 1..3 : final_report.syntaxIssues[k].file = 2

\* C20: a run that ends with an error ends with the acquisition error
\* exactly when the clone failed: the caller tells an acquisition failure
\* from a failure of any later step.
C20_AcquisitionFailureDistinct ==
    (Exited /\ outcome = "raised") => (error = "clone failed" <=> ~cloned)

\* C21: a failing removal of the workspace is not surfaced: a run whose try
\* block ended with a report returns it, and a run whose try block ended
\* with an error raises that error.
C21_CleanupFailureNotSurfaced ==
    Exited =>
        /\ pending = "return" => outcome = "returned"
        /\ pending \notin {"none", "return"} => error = pending

\* The fields of a report that state facts about the repository.
Factual(report) ==
    [repoName      |-> report.repoName,
     pythonVersion |-> report.pythonVersion,
     riskScore     |-> report.riskScore,
     dependencies  |-> report.dependencies,
     syntaxIssues  |-> report.syntaxIssues,
     targetVersion |-> report.recommendations.targetVersion]

\* C22: the factual fields of a returned report are those of the run's
\* detection, lookup and scan, the target version is "Python 3.11+", and
\* the same run with any other summarizer output that leads to a report
\* gives a report with the same factual fields.
C22_FactsIndependentOfSummarizer ==
    outcome = "returned" =>
        /\ Factual(final_report) =
              [repoName      |-> repo_name,
               pythonVersion |-> detected_version,
               riskScore     |-> risk_score(dependency_report, syntax_issues),
               dependencies  |-> dependency_report,
               syntaxIssues  |-> syntax_issues,
               targetVersion |-> "Python 3.11+"]
        /\ \A reply \in SummarizerReplies :
              LET other == generate_report_summary_and_steps(reply)
              IN  other.kind = "dict" =>
                     Factual(BuildReport(detected_version, dependency_report,
                                         syntax_issues, other))
                        = Factual(final_report)

\* A returned report with findings whose narrative came from the summarizer.
C22_Witness ==
    /\ outcome = "returned"
    /\ ai_reply = "json_full"
    /\ final_report.summary = "model summary"
    /\ final_report.dependencies # <<>>
    /\ final_report.syntaxIssues # <<>>

\* The clone has no requirements.txt and none of the three version files, and
\* the finished walk found exactly one source file, with nothing in it to
\* report.
BareWorkspace ==
    /\ WalkDone
    /\ version_files = "none"
    /\ manifest_file = "missing"
    /\ Len(SourcePaths(listing)) = 1
    /\ \A i \in DOMAIN listing : listing[i].py => listing[i].content = "clean"

\* C23: a run over such a workspace sends no request to the vulnerability
\* service, and the report it returns has pythonVersion "Undetermined",
\* riskScore 0, no dependencies and no syntaxIssues.
C23_BareWorkspaceReport ==
    BareWorkspace =>
        /\ osv_posts = 0
        /\ detected_version = "Undetermined"
        /\ dependency_report = <<>>
        /\ syntax_issues = <<>>
        /\ outcome = "returned" =>
              /\ final_report.pythonVersion = "Undetermined"
              /\ final_report.riskScore = 0
              /\ final_report.dependencies = <<>>
              /\ final_report.syntaxIssues = <<>>

\* Such a run has returned its report.
C23_Witness ==
    /\ BareWorkspace
    /\ outcome = "returned"
    /\ scanned = <<AbsPath(1)>>
    /\ final_report.riskScore = 0

\* No step after the clone has run: nothing detected, nothing extracted,
\* nothing looked up, nothing scanned, no summarizer call, no report.
NothingAfterClone ==
    /\ detected_version = "unset" /\ version_files = "unknown"
    /\ manifest_file = "unknown" /\ parsed_deps = <<>>
    /\ osv_posts = 0 /\ dependency_report = <<>>
    /\ listing = <<>> /\ scanned = <<>>
    /\ ai_reply = "unset"
    /\ final_report = NoReport

\* Where a run stands, as far as its steps have left a trace.
StepsInOrder ==
    /\ pc \in {"mkdtemp", "clone"} => NothingAfterClone
    /\ ~cloned => NothingAfterClone
    /\ pc \in {"parse", "osv"} => detected_version # "unset"
    /\ pc = "osv" => manifest_file # "unknown"
    /\ osv_posts > 0 => manifest_file # "unknown"
    /\ pc \in {"detect", "parse", "osv", "list", "walk"} =>
          (ai_reply = "unset" /\ final_report = NoReport)
    /\ pc \in {"detect", "parse", "osv"} => (listing = <<>> /\ scanned = <<>>)
    /\ ai_reply # "unset" =>
          /\ files = <<>>
          /\ scanned = SourcePaths(listing)
          /\ manifest_file # "unknown"
    /\ final_report # NoReport => ai_generated_content.kind # "unset"
    /\ (Exited /\ cloned) => ai_reply # "unset"

\* C28: the clone completes before detection, extraction before the lookup,
\* the summarizer is called once, with the lookup over and every source
\* file scanned, and the report is assembled after the summarizer's reply;
\* when the clone fails no later step runs.
C28_FixedStepOrder ==
    [][/\ StepsInOrder'
       /\ ai_reply' # ai_reply =>
             (ai_reply = "unset" /\ pc = "walk" /\ files = <<>>)
       /\ (dependency_report' # dependency_report \/ osv_posts' # osv_posts)
             => (pc = "osv" /\ pc' = "list")
       /\ scanned' # scanned => (pc = "walk" /\ ai_reply = "unset")
       /\ final_report' # final_report =>
             (pc = "assemble" /\ ai_generated_content.kind = "dict")
       /\ pending = "clone failed" =>
             (NothingAfterClone' /\ pc = "finally" /\ pc' = "done")]_vars

\* A report was returned after one request to the vulnerability service and
\* the scan of two source files.
C28_Witness ==
    /\ outcome = "returned"
    /\ osv_posts = 1
    /\ Len(scanned) = 2
    /\ ai_reply # "unset"
    /\ final_report # NoReport

\* The entries of a report's dependencies that are lookup-failure warnings,
\* and the entries of its syntaxIssues that stand for a file that could not
\* be parsed or read.
WarningEntries(report) ==
    SelectSeq(report.dependencies, LAMBDA e : e.status = "warning")

ErrorEntries(report) ==
    SelectSeq(report.syntaxIssues,
              LAMBDA e : e.type \in {"Syntax Error", "Analysis Error"})

\* C30: in a returned report every dependencies entry, warning entries
\* included, adds 25 and every syntaxIssues entry, "Syntax Error" and
\* "Analysis Error" entries included, adds 10 before the cap of 95; a report
\* with one warning entry and nothing else scores 25, a report with one
\* such error entry and nothing else scores 10.
C30_SyntheticEntriesCount ==
    outcome = "returned" =>
        LET warnings == Len(WarningEntries(final_report))
            findings == Len(final_report.dependencies) - warnings
            errors   == Len(ErrorEntries(final_report))
            others   == Len(final_report.syntaxIssues) - errors
        IN  /\ final_report.riskScore
                  = Min(95, 25 * warnings + 25 * findings
                              + 10 * errors + 10 * others)
            /\ (warnings = 1 /\ findings = 0 /\ errors = 0 /\ others = 0)
                  => final_report.riskScore = 25
            /\ (warnings = 0 /\ findings = 0 /\ errors = 1 /\ others = 0)
                  => final_report.riskScore = 10

\* A returned report whose only entry is the warning of a failed lookup.
C30_Witness ==
    /\ outcome = "returned"
    /\ Len(final_report.dependencies) = 1
    /\ final_report.dependencies[1].status = "warning"
    /\ final_report.syntaxIssues = <<>>
    /\ final_report.riskScore = 25

(***************************************************************************)
(* detect_python_version, src/scanner.py lines 20-63.                      *)
(*                                                                         *)
(* A text is a sequence of tokens: the word "python", a hyphen, a version  *)
(* word without hyphen or blank, and white space.  str.strip,              *)
(* str.startswith and str.split are computed on the tokens.                *)
(***************************************************************************)
MaxText == 4   \* longest content of runtime.txt, in tokens

TextTokens == {"python", "-", "3.9", " "}

Texts == SeqsUpTo(TextTokens, MaxText)

\* str.strip(): white space removed at both ends.
RECURSIVE LStrip(_)
LStrip(text) ==
    IF text # <<>> /\ Head(text) = " " THEN LStrip(Tail(text)) ELSE text

RECURSIVE RStrip(_)
RStrip(text) ==
    IF text # <<>> /\ text[Len(text)] = " "
    THEN RStrip(SubSeq(text, 1, Len(text) - 1))
    ELSE text

Strip(text) == RStrip(LStrip(text))

\* str.split('-'): the pieces between the hyphens, as a sequence of texts.
RECURSIVE SplitFrom(_, _, _)
SplitFrom(text, piece, pieces) ==
    IF text = <<>> THEN Append(pieces, piece)
    ELSE IF Head(text) = "-"
         THEN SplitFrom(Tail(text), <<>>, Append(pieces, piece))
         ELSE SplitFrom(Tail(text), Append(piece, Head(text)), pieces)

Split(text) == SplitFrom(text, <<>>, <<>>)

\* version_str.startswith('python-')
StartsWithPrefix(text) ==
    Len(text) >= 2 /\ text[1] = "python" /\ text[2] = "-"

\* Lines 27-31: the value returned for the content of a readable runtime.txt.
RuntimeVersion(content) ==
    LET version_str == Strip(content)
    IN  IF StartsWithPrefix(version_str)
        THEN Split(version_str)[2]
        ELSE version_str

\* A file of the repository: os.path.exists is false ("absent"), or it
\* exists and open/read raises ("unreadable"), or it is read ("readable").
FileOf(state, content) == [state |-> state, content |-> content]

RuntimeFiles ==
    {FileOf("absent", <<>>), FileOf("unreadable", <<>>)}
        \cup {FileOf("readable", t) : t \in Texts}

PyenvFiles ==
    {FileOf("absent", <<>>), FileOf("unreadable", <<>>),
     FileOf("readable", <<"3.11">>),
     FileOf("readable", <<" ", "3.11", " ">>)}

\* What tomli.load gives for pyproject.toml: a decode error ("malformed") or
\* a table.  `project` is missing, a scalar (valid TOML, no table), a table
\* without requires-python or a table with it; the poetry dependencies are
\* missing, lack `python` or have it.
Configs ==
    [parsed  : {TRUE},
     project : {"absent", "scalar", "empty", "requires"},
     poetry  : {"absent", "no_python", "python"}]

Malformed == [parsed |-> FALSE, project |-> "absent", poetry |-> "absent"]

PyprojectFiles ==
    {FileOf("absent", Malformed), FileOf("unreadable", Malformed),
     FileOf("readable", Malformed)}
        \cup {FileOf("readable", c) : c \in Configs}

Repos == [runtime : RuntimeFiles, pyenv : PyenvFiles,
          pyproject : PyprojectFiles]

RequiresPython == <<">=3.10">>
PoetryPython   == <<"^3.9">>
Undetermined   == <<"Undetermined">>

Found(where, value) == [found |-> TRUE, raised |-> FALSE,
                        at |-> where, value |-> value]
NotFound == [found |-> FALSE, raised |-> FALSE, at |-> "none", value |-> <<>>]
Raised   == [found |-> FALSE, raised |-> TRUE, at |-> "none", value |-> <<>>]

\* The handlers left out: a failing read reaches the caller.
OnFailure_Raise == Raised

\* Lines 32-33, 41-42 and 56-59: the failure is logged and the step is over.
OnFailure == NotFound

\* Lines 51-52 before lines 54-55, with the two lookups in the other order.
FromConfig_PoetryFirst(config) ==
    IF config.poetry = "python"
    THEN Found("tool.poetry.dependencies.python", PoetryPython)
    ELSE IF config.project = "requires"
         THEN Found("project.requires-python", RequiresPython)
         ELSE NotFound

\* Lines 50-55: the lookups in the parsed manifest.  `in` on a scalar
\* `project` raises a TypeError, which line 58 handles.
FromConfig(config) ==
    IF config.project = "requires"
    THEN Found("project.requires-python", RequiresPython)
    ELSE IF config.project = "scalar" THEN OnFailure
    ELSE IF config.poetry = "python"
         THEN Found("tool.poetry.dependencies.python", PoetryPython)
         ELSE NotFound

\* Lines 23-33.
StepRuntime(repo) ==
    CASE repo.runtime.state = "absent"     -> NotFound
      [] repo.runtime.state = "unreadable" -> OnFailure
      [] repo.runtime.state = "readable"   ->
            Found("runtime.txt", RuntimeVersion(repo.runtime.content))

\* Lines 36-42.
StepPyenv(repo) ==
    CASE repo.pyenv.state = "absent"     -> NotFound
      [] repo.pyenv.state = "unreadable" -> OnFailure
      [] repo.pyenv.state = "readable"   ->
            Found(".python-version", Strip(repo.pyenv.content))

\* Lines 45-59.
StepPyproject(repo) ==
    CASE repo.pyproject.state = "absent"     -> NotFound
      [] repo.pyproject.state = "unreadable" -> OnFailure
      [] repo.pyproject.state = "readable"   ->
            IF ~repo.pyproject.content.parsed
            THEN OnFailure
            ELSE FromConfig(repo.pyproject.content)

\* The whole function: the first step that returns, else line 63.
detect_python_version(repo) ==
    LET r1 == StepRuntime(repo)
        r2 == StepPyenv(repo)
        r3 == StepPyproject(repo)
    IN  IF r1.found \/ r1.raised THEN r1
        ELSE IF r2.found \/ r2.raised THEN r2
        ELSE IF r3.found \/ r3.raised THEN r3
        ELSE Found("default", Undetermined)

InitDetect ==
    /\ det_pc = "runtime"
    /\ repo_path \in Repos
    /\ det_version = <<>>
    /\ returned_at = "none"
    /\ ReqIdle /\ ScanIdle
    /\ OsvIdle /\ RiskIdle /\ PipeIdle /\ SvcIdle

\* One step of the function: return, raise or go on to `next`.
DetStep(r, next) ==
    /\ det_pc' = IF r.found THEN "done" ELSE IF r.raised THEN "raised" ELSE next
    /\ det_version' = r.value
    /\ returned_at' = r.at
    /\ UNCHANGED <<repo_path, reqVars, scanVars, osvVars, riskVars, pipeVars, svcVars>>

DetectRuntime ==
    /\ det_pc = "runtime"
    /\ DetStep(StepRuntime(repo_path), "pyenv")

DetectPyenv ==
    /\ det_pc = "pyenv"
    /\ DetStep(StepPyenv(repo_path), "pyproject")

DetectPyproject ==
    /\ det_pc = "pyproject"
    /\ DetStep(StepPyproject(repo_path), "default")

DetectDefault ==
    /\ det_pc = "default"
    /\ DetStep(Found("default", Undetermined), "done")

NextDetect == DetectRuntime \/ DetectPyenv \/ DetectPyproject \/ DetectDefault

SpecDetect == InitDetect /\ [][NextDetect]_vars

(***************************************************************************)
(* Properties of detect_python_version (SpecDetect).                       *)
(***************************************************************************)
Returned == det_pc = "done"

Readable(f) == f.state = "readable"

\* The manifest was read and parsed into a table whose `project`, if any, is
\* a table.
ManifestRead ==
    /\ Readable(repo_path.pyproject)
    /\ repo_path.pyproject.content.parsed
    /\ repo_path.pyproject.content.project # "scalar"

HasRequiresPython ==
    ManifestRead /\ repo_path.pyproject.content.project = "requires"

HasPoetryPython ==
    ManifestRead /\ repo_path.pyproject.content.poetry = "python"

\* C12: the sources are consulted in the order runtime.txt, .python-version,
\* project.requires-python, tool.poetry.dependencies.python: the call
\* returns at the first one that is read and returns that one's value, and
\* it returns "Undetermined" when none yields a value.
C12_StrictPriority ==
    Returned =>
        IF Readable(repo_path.runtime)
        THEN /\ returned_at = "runtime.txt"
             /\ det_version = RuntimeVersion(repo_path.runtime.content)
        ELSE IF Readable(repo_path.pyenv)
        THEN /\ returned_at = ".python-version"
             /\ det_version = Strip(repo_path.pyenv.content)
        ELSE IF HasRequiresPython
        THEN /\ returned_at = "project.requires-python"
             /\ det_version = RequiresPython
        ELSE IF HasPoetryPython
        THEN /\ returned_at = "tool.poetry.dependencies.python"
             /\ det_version = PoetryPython
        ELSE /\ returned_at = "default"
             /\ det_version = Undetermined

\* The manifest names both of its versions and no higher source is readable:
\* project.requires-python is returned.
C12_Witness ==
    /\ Returned
    /\ ~Readable(repo_path.runtime)
    /\ ~Readable(repo_path.pyenv)
    /\ HasRequiresPython
    /\ HasPoetryPython
    /\ det_version = RequiresPython

\* The repository with every file whose step fails taken away.
Failing(repo, k) ==
    \/ repo[k].state = "unreadable"
    \/ /\ k = "pyproject"
       /\ repo[k].state = "readable"
       /\ \/ ~repo[k].content.parsed
          \/ repo[k].content.project = "scalar"

WithoutFailures(repo) ==
    [k \in DOMAIN repo |->
        IF Failing(repo, k) THEN [repo[k] EXCEPT !.state = "absent"]
        ELSE repo[k]]

SomeStepFailed == \E k \in DOMAIN repo_path : Failing(repo_path, k)

\* C13: a failure at a step never reaches the caller and counts as "not
\* found at this step": the call returns what it returns for the repository
\* without the failing files, so the lower sources are still consulted, and
\* "Undetermined" when no step succeeds.
C13_FailureFallsThrough ==
    /\ det_pc # "raised"
    /\ (Returned /\ SomeStepFailed) =>
          /\ det_version = detect_python_version(WithoutFailures(repo_path)).value
          /\ returned_at = detect_python_version(WithoutFailures(repo_path)).at
          /\ (\A k \in DOMAIN repo_path : ~Readable(repo_path[k]))
                => det_version = Undetermined

\* An unreadable runtime.txt next to a readable .python-version.
C13_Witness ==
    /\ Returned
    /\ repo_path.runtime.state = "unreadable"
    /\ Readable(repo_path.pyenv)
    /\ returned_at = ".python-version"
    /\ det_version = <<"3.11">>

\* C14: for a readable runtime.txt whose trimmed content starts with
\* "python-" the result is the entire remainder after that prefix; otherwise
\* it is the trimmed content unchanged.
C14_RemainderAfterPrefix ==
    (Returned /\ Readable(repo_path.runtime)) =>
        LET trimmed == Strip(repo_path.runtime.content)
        IN  det_version = IF StartsWithPrefix(trimmed)
                          THEN SubSeq(trimmed, 3, Len(trimmed))
                          ELSE trimmed

(***************************************************************************)
(* parse_pinned_requirements, src/scanner.py lines 65-93.                  *)
(*                                                                         *)
(* A line of the manifest is given by what line.strip() leaves: nothing, a *)
(* comment, an editable install, text that packaging's Requirement rejects,*)
(* or a requirement with a name and a list of version specifiers.  A line  *)
(* may also fail to decode, which ends the iteration over the file.        *)
(***************************************************************************)
MaxLines == 3   \* longest manifest, in lines

Clause(op, ver) == [op |-> op, ver |-> ver]

RequirementLine(name, specifier) ==
    [kind |-> "requirement", name |-> name, specifier |-> specifier]

OtherLine(kind) == [kind |-> kind, name |-> "", specifier |-> <<>>]

Lines ==
    {OtherLine("blank"), OtherLine("comment"), OtherLine("editable"),
     OtherLine("unparsable"), OtherLine("undecodable"),
     RequirementLine("Flask", <<Clause("==", "2.0.1")>>),
     RequirementLine("pandas", <<Clause("==", "1.3.3")>>),
     RequirementLine("numpy", <<Clause(">=", "1.21.0")>>),
     RequirementLine("requests", <<>>),
     RequirementLine("six", <<Clause("===", "1.16.0")>>),
     RequirementLine("attrs",
                     <<Clause("==", "21.2.0"), Clause(">=", "20.0.0")>>)}

Manifest(state, lines) == [state |-> state, lines |-> lines]

\* str.lower() on the names of the model.
Lower(name) == IF name = "Flask" THEN "flask" ELSE name

\* The characters of an operator.
OpText(op) ==
    CASE op = "=="  -> <<"=", "=">>
      [] op = "===" -> <<"=", "=", "=">>
      [] op = ">="  -> <<">", "=">>

\* str(req.specifier) for a single clause: the operator, then the version.
SpecifierText(clause) == OpText(clause.op) \o <<clause.ver>>

\* str.startswith('==')
StartsWithEqEq(text) == Len(text) >= 2 /\ text[1] = "=" /\ text[2] = "="

\* str.replace('==', ''): every non-overlapping "==", from the left.
RECURSIVE ReplaceEqEq(_)
ReplaceEqEq(text) ==
    IF text = <<>> THEN <<>>
    ELSE IF StartsWithEqEq(text) THEN ReplaceEqEq(Tail(Tail(text)))
    ELSE <<Head(text)>> \o ReplaceEqEq(Tail(text))

\* The inner handler left out: the error leaves the loop and reaches the
\* outer handler of line 90.
AfterParseError_Abort == "abort"

\* Lines 87-89: the line is logged and the loop goes on.
AfterParseError == "continue"

\* Lines 75-89 for one line: the list after it and whether the loop goes on.
ParseLine(line, deps) ==
    CASE line.kind \in {"blank", "comment", "editable"} ->
            [deps |-> deps, next |-> "continue"]
      [] line.kind = "undecodable" ->
            [deps |-> deps, next |-> "abort"]
      [] line.kind = "unparsable" ->
            [deps |-> deps, next |-> AfterParseError]
      [] line.kind = "requirement" ->
            IF /\ Len(line.specifier) = 1
               /\ StartsWithEqEq(SpecifierText(line.specifier[1]))
            THEN [deps |-> Append(deps,
                      [name    |-> Lower(line.name),
                       version |-> ReplaceEqEq(SpecifierText(line.specifier[1]))]),
                  next |-> "continue"]
            ELSE [deps |-> deps, next |-> "continue"]

\* Lines 74-91: the loop over the lines of an opened manifest.
RECURSIVE ParseLines(_, _)
ParseLines(lines, deps) ==
    IF lines = <<>> THEN deps
    ELSE LET r == ParseLine(Head(lines), deps)
         IN  IF r.next = "continue" THEN ParseLines(Tail(lines), r.deps)
             ELSE r.deps

\* The whole function.
parse_pinned_requirements(manifest) ==
    IF manifest.state = "readable" THEN ParseLines(manifest.lines, <<>>)
    ELSE <<>>

InitReq ==
    /\ req_pc = "exists"
    /\ \/ requirements_path = Manifest("missing", <<>>)
       \/ requirements_path = Manifest("unopenable", <<>>)
       \/ \E k \in 0..MaxLines : \E l \in [1..k -> Lines] :
             requirements_path = Manifest("readable", l)
    /\ lines_left = <<>>
    /\ pinned = <<>>
    /\ DetIdle /\ ScanIdle
    /\ OsvIdle /\ RiskIdle /\ PipeIdle /\ SvcIdle

\* Lines 68-70.
ReqMissing ==
    /\ req_pc = "exists"
    /\ requirements_path.state = "missing"
    /\ req_pc' = "done"
    /\ UNCHANGED <<requirements_path, lines_left, pinned>>
    /\ UNCHANGED <<detVars, scanVars, osvVars, riskVars, pipeVars, svcVars>>

\* Line 73: the file is opened.
ReqOpen ==
    /\ req_pc = "exists"
    /\ requirements_path.state = "readable"
    /\ req_pc' = "lines"
    /\ lines_left' = requirements_path.lines
    /\ UNCHANGED <<requirements_path, pinned>>
    /\ UNCHANGED <<detVars, scanVars, osvVars, riskVars, pipeVars, svcVars>>

\* Line 73 raises; lines 90-93 log and return the empty list.
ReqOpenFails ==
    /\ req_pc = "exists"
    /\ requirements_path.state = "unopenable"
    /\ req_pc' = "done"
    /\ UNCHANGED <<requirements_path, lines_left, pinned>>
    /\ UNCHANGED <<detVars, scanVars, osvVars, riskVars, pipeVars, svcVars>>

\* Lines 74-89: one turn of the loop.
ReqLine ==
    /\ req_pc = "lines"
    /\ lines_left # <<>>
    /\ LET r == ParseLine(Head(lines_left), pinned)
       IN  /\ pinned' = r.deps
           /\ IF r.next = "continue"
              THEN /\ lines_left' = Tail(lines_left)
                   /\ req_pc' = "lines"
              ELSE /\ lines_left' = lines_left
                   /\ req_pc' = "done"
    /\ UNCHANGED requirements_path
    /\ UNCHANGED <<detVars, scanVars, osvVars, riskVars, pipeVars, svcVars>>

\* Line 93 after the last line.
ReqReturn ==
    /\ req_pc = "lines"
    /\ lines_left = <<>>
    /\ req_pc' = "done"
    /\ UNCHANGED <<requirements_path, lines_left, pinned>>
    /\ UNCHANGED <<detVars, scanVars, osvVars, riskVars, pipeVars, svcVars>>

NextReq == ReqMissing \/ ReqOpen \/ ReqOpenFails \/ ReqLine \/ ReqReturn

SpecReq == InitReq /\ [][NextReq]_vars

(***************************************************************************)
(* Properties of parse_pinned_requirements (SpecReq).                      *)
(***************************************************************************)
ReqReturned == req_pc = "done"

\* An exact pin: a requirement with a single clause whose operator is an
\* equality ("==" or the arbitrary equality "===").
IsExactPin(line) ==
    /\ line.kind = "requirement"
    /\ Len(line.specifier) = 1
    /\ line.specifier[1].op \in {"==", "==="}

\* The entries the manifest asks for: one per exact pin, in manifest order,
\* the name lowercased and the version as pinned.
RECURSIVE PinsOf(_)
PinsOf(lines) ==
    IF lines = <<>> THEN <<>>
    ELSE (IF IsExactPin(Head(lines))
          THEN <<[name    |-> Lower(Head(lines).name),
                  version |-> <<Head(lines).specifier[1].ver>>]>>
          ELSE <<>>) \o PinsOf(Tail(lines))

FullyRead ==
    /\ requirements_path.state = "readable"
    /\ \A i \in DOMAIN requirements_path.lines :
          requirements_path.lines[i].kind # "undecodable"

\* C15: for a manifest that is read to its end the call returns, in manifest
\* order, exactly one entry per exact pin and nothing for any other line,
\* each name lowercased and each version the pinned version.
C15_ExactPinsInOrder ==
    (ReqReturned /\ FullyRead) => pinned = PinsOf(requirements_path.lines)

\* The manifest with the lines that fail to parse taken out.
Parsable(lines) == SelectSeq(lines, LAMBDA l : l.kind # "unparsable")

\* C16: the call never raises; a line that fails to parse is skipped without
\* affecting the lines before or after it (the result is that of the manifest
\* without such lines); a missing manifest and a manifest that cannot be
\* opened give the empty list.
C16_NeverRaisesSkipsBadLines ==
    /\ req_pc # "raised"
    /\ ReqReturned =>
          /\ requirements_path.state \in {"missing", "unopenable"}
                => pinned = <<>>
          /\ requirements_path.state = "readable" =>
                pinned = ParseLines(Parsable(requirements_path.lines), <<>>)

\* A line that fails to parse between two pins, both of which are extracted.
C16_Witness ==
    /\ ReqReturned
    /\ requirements_path.state = "readable"
    /\ Len(requirements_path.lines) = 3
    /\ requirements_path.lines[1].name = "Flask"
    /\ requirements_path.lines[2].kind = "unparsable"
    /\ requirements_path.lines[3].name = "pandas"
    /\ Len(pinned) = 2

(***************************************************************************)
(* analyze_python_file and DeprecatedSyntaxVisitor, src/scanner.py lines   *)
(* 157-250.                                                                *)
(*                                                                         *)
(* A parsed tree is a sequence of statement nodes below the Module node 0: *)
(* node i has a parent among 0..i-1 and its line number is i.  A node is a *)
(* print statement, a raise with the attributes `type` and `inst` (old     *)
(* style) or a raise without them.  `loc` says what the node's location    *)
(* allows: ast.get_source_segment returns the text ("full"), returns None  *)
(* ("no_end"), raises ("bad"), or the node has no lineno at all.           *)
(***************************************************************************)
MaxNodes == 3   \* most nodes below the Module node

NodeShapes ==
    [kind : {"Print"}, old : {FALSE},
     loc : {"full", "no_end", "bad", "no_lineno"}]
        \cup [kind : {"Raise"}, old : {TRUE}, loc : {"full", "bad"}]
        \cup [kind : {"Raise"}, old : {FALSE}, loc : {"full"}]

Node(parent, shape) ==
    [parent |-> parent, kind |-> shape.kind, old |-> shape.old,
     loc |-> shape.loc]

\* The trees of k nodes: every node below the Module node or below a node
\* before it.
TreesOf(k) ==
    {t \in [1..k -> {Node(p, s) : p \in 0..(k - 1), s \in NodeShapes}] :
        \A i \in 1..k : t[i].parent < i}

SourceFile(state, lineno, nodes) ==
    [state |-> state, lineno |-> lineno, nodes |-> nodes]

\* The files that do not parse: open/read raises, or ast.parse raises
\* SyntaxError at a line.
FailingSourceFiles ==
    {SourceFile("unreadable", 0, <<>>)}
        \cup {SourceFile("malformed", n, <<>>) : n \in 1..2}

filepath == "filepath"

Snippet(kind, line) == [kind |-> kind, line |-> line]

FileIssue(type, line, snippet) ==
    [type |-> type, file |-> filepath, line |-> line, code_snippet |-> snippet]

\* Lines 164-171: the segment, "" when get_source_segment returns None, the
\* placeholder naming the line when it raises.
get_code_snippet(nodes, i) ==
    CASE nodes[i].loc = "full"   -> Snippet("segment", i)
      [] nodes[i].loc = "bad"    -> Snippet("placeholder", i)
      [] OTHER                   -> Snippet("empty", 0)

\* The node kinds with a handler that appends: visit_Print always, visit_Raise
\* under the test of line 183.
InCatalog(node) == node.kind = "Print" \/ (node.kind = "Raise" /\ node.old)

IssueType(node) ==
    IF node.kind = "Print" THEN "Print Statement Syntax (Python 2)"
    ELSE "Old-style raise statement (Python 2)"

\* The children of node i (0 is the Module node), in source order.
Children(nodes, i) ==
    SelectSeq([j \in 1..Len(nodes) |-> j], LAMBDA j : nodes[j].parent = i)

\* visit_Print without its last statement: nothing below a print statement
\* is visited.
Descends_NotBelowPrint(node) == node.kind # "Print"

\* Lines 197 and 209, and NodeVisitor's default: generic_visit(node).
Descends(node) == TRUE

\* The visitor on node i and on a list of siblings.  `acc` holds
\* visitor.issues and whether an exception has left the traversal.
RECURSIVE visit(_, _, _)
RECURSIVE generic_visit(_, _, _)
visit(nodes, i, acc) ==
    IF acc.raised THEN acc
    ELSE LET appended ==
                 IF ~InCatalog(nodes[i]) THEN acc
                 ELSE IF nodes[i].loc = "no_lineno"
                      THEN [acc EXCEPT !.raised = TRUE]
                      ELSE [acc EXCEPT !.issues =
                               Append(@, FileIssue(IssueType(nodes[i]), i,
                                                   get_code_snippet(nodes, i)))]
         IN  IF Descends(nodes[i])
             THEN generic_visit(nodes, Children(nodes, i), appended)
             ELSE appended

generic_visit(nodes, kids, acc) ==
    IF kids = <<>> THEN acc
    ELSE generic_visit(nodes, Tail(kids), visit(nodes, Head(kids), acc))

SyntaxErrorIssue(lineno) ==
    FileIssue("Syntax Error", lineno, Snippet("error_line", lineno))

AnalysisErrorIssue ==
    FileIssue("Analysis Error", 0, Snippet("analysis_failed", 0))

\* `issues` bound to visitor.issues before the traversal: what the visitor
\* had appended stays in the list.
IssuesOnError_Kept(found) == found

\* Lines 216 and 227: `issues` is still the empty list of line 216 when the
\* traversal raises, whatever the visitor had appended.
IssuesOnError(found) == <<>>

InitScan ==
    /\ scan_pc = "open"
    /\ \/ file_path \in FailingSourceFiles
       \/ \E k \in 0..MaxNodes : \E t \in TreesOf(k) :
             file_path = SourceFile("parsable", 0, t)
    /\ tree = <<>>
    /\ file_issues = <<>>
    /\ DetIdle /\ ReqIdle
    /\ OsvIdle /\ RiskIdle /\ PipeIdle /\ SvcIdle

\* Lines 219-220.
ScanOpen ==
    /\ scan_pc = "open"
    /\ file_path.state # "unreadable"
    /\ scan_pc' = "parse"
    /\ UNCHANGED <<file_path, tree, file_issues>>
    /\ UNCHANGED <<detVars, reqVars, osvVars, riskVars, pipeVars, svcVars>>

\* Lines 219-220 raise; lines 239-249.
ScanOpenFails ==
    /\ scan_pc = "open"
    /\ file_path.state = "unreadable"
    /\ file_issues' = Append(file_issues, AnalysisErrorIssue)
    /\ scan_pc' = "done"
    /\ UNCHANGED <<file_path, tree>>
    /\ UNCHANGED <<detVars, reqVars, osvVars, riskVars, pipeVars, svcVars>>

\* Line 223.
ScanParse ==
    /\ scan_pc = "parse"
    /\ file_path.state = "parsable"
    /\ tree' = file_path.nodes
    /\ scan_pc' = "visit"
    /\ UNCHANGED <<file_path, file_issues>>
    /\ UNCHANGED <<detVars, reqVars, osvVars, riskVars, pipeVars, svcVars>>

\* Line 223 raises SyntaxError; lines 229-238.
ScanParseFails ==
    /\ scan_pc = "parse"
    /\ file_path.state = "malformed"
    /\ file_issues' = Append(file_issues, SyntaxErrorIssue(file_path.lineno))
    /\ scan_pc' = "done"
    /\ UNCHANGED <<file_path, tree>>
    /\ UNCHANGED <<detVars, reqVars, osvVars, riskVars, pipeVars, svcVars>>

\* Lines 226-227, and lines 239-249 when the traversal raises.
ScanVisit ==
    /\ scan_pc = "visit"
    /\ LET r == generic_visit(tree, Children(tree, 0),
                              [issues |-> <<>>, raised |-> FALSE])
       IN  file_issues' =
               IF r.raised
               THEN Append(IssuesOnError(r.issues), AnalysisErrorIssue)
               ELSE r.issues
    /\ scan_pc' = "done"
    /\ UNCHANGED <<file_path, tree>>
    /\ UNCHANGED <<detVars, reqVars, osvVars, riskVars, pipeVars, svcVars>>

NextScan ==
    ScanOpen \/ ScanOpenFails \/ ScanParse \/ ScanParseFails \/ ScanVisit

SpecScan == InitScan /\ [][NextScan]_vars

(***************************************************************************)
(* Properties of analyze_python_file (SpecScan).                           *)
(***************************************************************************)
ScanReturned == scan_pc = "done"

CatalogNodes == {i \in DOMAIN file_path.nodes : InCatalog(file_path.nodes[i])}

\* The traversal raises: a node it appends an issue for has no line number.
TraversalRaises ==
    \E i \in CatalogNodes : file_path.nodes[i].loc = "no_lineno"

\* C17: the call never raises; on a parse failure it returns exactly one
\* issue, a "Syntax Error" with the failing line, and on an unreadable file
\* or an error during the traversal exactly one issue, an "Analysis Error",
\* with nothing the traversal had produced.
C17_OneIssueOnFailure ==
    /\ scan_pc # "raised"
    /\ ScanReturned =>
          /\ file_path.state = "malformed" =>
                /\ Len(file_issues) = 1
                /\ file_issues[1].type = "Syntax Error"
                /\ file_issues[1].line = file_path.lineno
          /\ (file_path.state = "unreadable" \/ TraversalRaises) =>
                /\ Len(file_issues) = 1
                /\ file_issues[1].type = "Analysis Error"

\* The traversal raised after the visitor had appended an issue.
C17_Witness ==
    /\ ScanReturned
    /\ Len(file_path.nodes) = 2
    /\ file_path.nodes[1].kind = "Print"
    /\ file_path.nodes[1].loc = "full"
    /\ file_path.nodes[2].loc = "no_lineno"
    /\ Len(file_issues) = 1
    /\ file_issues[1].type = "Analysis Error"

Visited == ScanReturned /\ file_path.state = "parsable" /\ ~TraversalRaises

IssuesAt(i) == {k \in DOMAIN file_issues : file_issues[k].line = i}

\* One issue of the node's type for every catalog node, nested or not, and
\* no other issue.
OnePerCatalogNode ==
    /\ Len(file_issues) = Cardinality(CatalogNodes)
    /\ \A i \in CatalogNodes :
          /\ Cardinality(IssuesAt(i)) = 1
          /\ \A k \in IssuesAt(i) :
                file_issues[k].type = IssueType(file_path.nodes[i])

MaxRuns  == 2   \* runs in flight in one behaviour
MaxNames == 3   \* directory names tempfile.mkdtemp draws from

Runs == 1..MaxRuns

Names == 1..MaxNames

NoDir == [exists |-> FALSE, clone_of |-> 0]

EmptyDir == [exists |-> TRUE, clone_of |-> 0]

CloneOf(r) == [exists |-> TRUE, clone_of |-> r]

\* A run between mkdtemp and the end of its finally clause.
Live(r) == conc_pc[r] \in {"clone", "scan", "finally"}

\* A fixed workspace path instead of mkdtemp: any name, existing or not.
FreshNames_Any(disk) == Names

\* Line 256, tempfile.mkdtemp: the directory is created under a name that
\* did not exist (creation fails on an existing name and another is tried).
FreshNames(disk) == {n \in Names : ~disk[n].exists}

InitConc ==
    /\ conc_pc = [r \in Runs |-> "mkdtemp"]
    /\ conc_dir = [r \in Runs |-> 0]
    /\ conc_disk = [n \in Names |-> NoDir]
    /\ conc_read = [r \in Runs |-> 0]
    /\ conc_removed = [r \in Runs |-> 0]
    /\ conc_foreign = FALSE
    /\ TaskIdle /\ ApiIdle
    /\ DetIdle /\ ReqIdle /\ ScanIdle
    /\ OsvIdle /\ RiskIdle /\ PipeIdle

\* Line 256.
ConcMkdtemp(r) ==
    /\ conc_pc[r] = "mkdtemp"
    /\ \E n \in FreshNames(conc_disk) :
          /\ conc_dir' = [conc_dir EXCEPT ![r] = n]
          /\ conc_disk' = [conc_disk EXCEPT ![n] = EmptyDir]
    /\ conc_pc' = [conc_pc EXCEPT ![r] = "clone"]
    /\ UNCHANGED <<conc_read, conc_removed, conc_foreign>>
    /\ UNCHANGED <<taskVars, apiVars, detVars, reqVars, scanVars, osvVars,
                   riskVars, pipeVars>>

\* Line 260: the clone is written into the run's temp_dir, or clone_from
\* raises.
ConcClone(r) ==
    /\ conc_pc[r] = "clone"
    /\ \/ /\ conc_disk' = [conc_disk EXCEPT ![conc_dir[r]] = CloneOf(r)]
          /\ conc_pc' = [conc_pc EXCEPT ![r] = "scan"]
       \/ /\ conc_pc' = [conc_pc EXCEPT ![r] = "finally"]
          /\ UNCHANGED conc_disk
    /\ UNCHANGED <<conc_dir, conc_read, conc_removed, conc_foreign>>
    /\ UNCHANGED <<taskVars, apiVars, detVars, reqVars, scanVars, osvVars,
                   riskVars, pipeVars>>

\* Lines 262-276: every step reads under the run's temp_dir.
ConcScan(r) ==
    /\ conc_pc[r] = "scan"
    /\ conc_read' = [conc_read EXCEPT ![r] = conc_disk[conc_dir[r]].clone_of]
    /\ conc_pc' = [conc_pc EXCEPT ![r] = "finally"]
    /\ UNCHANGED <<conc_dir, conc_disk, conc_removed, conc_foreign>>
    /\ UNCHANGED <<taskVars, apiVars, detVars, reqVars, scanVars, osvVars,
                   riskVars, pipeVars>>

\* Lines 306-308: rmtree of the run's temp_dir if it exists; rmtree removes
\* it or raises and leaves it.
ConcCleanup(r) ==
    /\ conc_pc[r] = "finally"
    /\ IF conc_disk[conc_dir[r]].exists
       THEN \/ /\ conc_disk' = [conc_disk EXCEPT ![conc_dir[r]] = NoDir]
               /\ conc_removed' = [conc_removed EXCEPT ![r] = conc_dir[r]]
               /\ conc_foreign' =
                     (conc_foreign \/ \E q \in Runs \ {r} :
                                         Live(q) /\ conc_dir[q] = conc_dir[r])
            \/ UNCHANGED <<conc_disk, conc_removed, conc_foreign>>
       ELSE UNCHANGED <<conc_disk, conc_removed, conc_foreign>>
    /\ conc_pc' = [conc_pc EXCEPT ![r] = "done"]
    /\ UNCHANGED <<conc_dir, conc_read>>
    /\ UNCHANGED <<taskVars, apiVars, detVars, reqVars, scanVars, osvVars,
                   riskVars, pipeVars>>

NextConc ==
    \E r \in Runs :
        ConcMkdtemp(r) \/ ConcClone(r) \/ ConcScan(r) \/ ConcCleanup(r)

SpecConc == InitConc /\ [][NextConc]_vars

(***************************************************************************)
(* Properties of concurrent runs (SpecConc).                               *)
(***************************************************************************)
\* C24: under every interleaving no two live runs have the same workspace, a
\* run reads only the clone it wrote itself, and a run's cleanup removes
\* only its own workspace and never one another live run is using.
C24_WorkspacesIsolated ==
    /\ \A r, q \in Runs :
          (r # q /\ Live(r) /\ Live(q)) => conc_dir[r] # conc_dir[q]
    /\ \A r \in Runs : conc_read[r] \in {0, r}
    /\ \A r \in Runs : conc_removed[r] \in {0, conc_dir[r]}
    /\ ~conc_foreign

\* Two runs are live at once; one has read its clone, the other has removed
\* its workspace while the first one was still live.
C24_Witness ==
    /\ Live(1)
    /\ conc_read[1] = 1
    /\ conc_pc[2] = "done"
    /\ conc_removed[2] = conc_dir[2]
    /\ conc_dir[1] # conc_dir[2]
    /\ conc_disk[conc_dir[1]] = CloneOf(1)

(***************************************************************************)
(* The queued task run_repository_scan, src/celery_worker.py lines 15-30,  *)
(* and save_scan_report, src/scanner.py lines 311-319.                     *)
(***************************************************************************)
MaxUsers == 2

UserIds == 1..MaxUsers

RepoNames == {"octo/app", "octo/lib"}

\* What analyze_repository does for the task: it raises, or it returns a
\* report of the repository.
Reports(name) == {[repoName |-> name, riskScore |-> s] : s \in {0, 10, 25}}

Analyses(name) ==
    {[raised |-> TRUE, report |-> <<>>]}
        \cup {[raised |-> FALSE, report |-> <<rep>>] : rep \in Reports(name)}

\* scanner.py line 311: the parameters of save_scan_report, none of which
\* has a default.
SaveParams == <<"db", "user_id", "repo_name", "report_data">>

\* celery_worker.py line 26: four positional arguments and one keyword.
SavePositional == <<"db", "user_id", "repo_name", "report">>

SaveKeywords == {"task_id"}

\* Python's binding of a call to a signature without defaults, *args or
\* **kwargs: TypeError unless the positional arguments fit, every keyword
\* names a parameter not already bound, and every parameter is bound.
Binds(params, positional, keywords) ==
    /\ Len(positional) <= Len(params)
    /\ keywords = {params[i] : i \in (Len(positional) + 1)..Len(params)}

\* scanner.py lines 313-317: the row handed to db.add.
ScanReport(user_id, name, report_data) ==
    [user_id |-> user_id, repo_name |-> name, report_data |-> report_data]

InitTask ==
    /\ task_pc = "analyze"
    /\ \E name \in RepoNames, user_id \in UserIds :
       \E analysis \in Analyses(name), commit \in {"ok", "raises"} :
          task_in = [repo_name |-> name, user_id |-> user_id,
                     analysis |-> analysis, commit |-> commit,
                     task_id |-> "t1"]
    /\ task_report = <<>>
    /\ db_session = "none"
    /\ task_stored = <<>>
    /\ task_result = [state |-> "STARTED", result |-> <<>>, raised |-> "none"]
    /\ ConcIdle /\ ApiIdle
    /\ DetIdle /\ ReqIdle /\ ScanIdle
    /\ OsvIdle /\ RiskIdle /\ PipeIdle

\* celery_worker.py line 21.
TaskAnalyze ==
    /\ task_pc = "analyze"
    /\ IF task_in.analysis.raised
       THEN /\ task_result' = [state |-> "FAILURE", result |-> <<>>,
                               raised |-> "analysis raised"]
            /\ task_pc' = "done"
            /\ UNCHANGED task_report
       ELSE /\ task_report' = task_in.analysis.report
            /\ task_pc' = "session"
            /\ UNCHANGED task_result
    /\ UNCHANGED <<task_in, db_session, task_stored>>
    /\ UNCHANGED <<concVars, apiVars, detVars, reqVars, scanVars, osvVars,
                   riskVars, pipeVars>>

\* celery_worker.py line 24.
TaskSession ==
    /\ task_pc = "session"
    /\ db_session' = "open"
    /\ task_pc' = "save"
    /\ UNCHANGED <<task_in, task_report, task_stored, task_result>>
    /\ UNCHANGED <<concVars, apiVars, detVars, reqVars, scanVars, osvVars,
                   riskVars, pipeVars>>

\* celery_worker.py line 26 calling scanner.py lines 311-319: the call is
\* bound to the signature, then the row is added and committed.
TaskSave ==
    /\ task_pc = "save"
    /\ IF ~Binds(SaveParams, SavePositional, SaveKeywords)
       THEN /\ task_result' = [task_result EXCEPT !.raised = "TypeError"]
            /\ UNCHANGED task_stored
       ELSE IF task_in.commit = "raises"
       THEN /\ task_result' = [task_result EXCEPT !.raised = "commit raised"]
            /\ UNCHANGED task_stored
       ELSE /\ task_stored' =
                  Append(task_stored,
                         ScanReport(task_in.user_id, task_in.repo_name,
                                    task_report[1]))
            /\ UNCHANGED task_result
    /\ task_pc' = "close"
    /\ UNCHANGED <<task_in, task_report, db_session>>
    /\ UNCHANGED <<concVars, apiVars, detVars, reqVars, scanVars, osvVars,
                   riskVars, pipeVars>>

\* celery_worker.py lines 27-28.
TaskClose ==
    /\ task_pc = "close"
    /\ db_session' = "closed"
    /\ task_pc' = "return"
    /\ UNCHANGED <<task_in, task_report, task_stored, task_result>>
    /\ UNCHANGED <<concVars, apiVars, detVars, reqVars, scanVars, osvVars,
                   riskVars, pipeVars>>

\* celery_worker.py line 30, or the exception of the try block leaving the
\* task.
TaskReturn ==
    /\ task_pc = "return"
    /\ task_result' =
          IF task_result.raised # "none"
          THEN [task_result EXCEPT !.state = "FAILURE"]
          ELSE [task_result EXCEPT !.state = "SUCCESS", !.result = task_report]
    /\ task_pc' = "done"
    /\ UNCHANGED <<task_in, task_report, db_session, task_stored>>
    /\ UNCHANGED <<concVars, apiVars, detVars, reqVars, scanVars, osvVars,
                   riskVars, pipeVars>>

NextTask ==
    TaskAnalyze \/ TaskSession \/ TaskSave \/ TaskClose \/ TaskReturn

SpecTask == InitTask /\ [][NextTask]_vars

(***************************************************************************)
(* Properties of the queued task (SpecTask).                               *)
(***************************************************************************)
\* C25: when the task has ended and analyze_repository returned a report,
\* that report was stored exactly once with the user id and the repository
\* name, the session is closed and the task returned that report; when
\* analyze_repository raised, nothing was stored.  (As analysed, the commit
\* is taken to succeed.)
C25_ReportStoredOnce ==
    (task_pc = "done" /\ task_in.commit = "ok") =>
        IF task_in.analysis.raised
        THEN task_stored = <<>>
        ELSE /\ task_stored =
                   <<ScanReport(task_in.user_id, task_in.repo_name,
                                task_in.analysis.report[1])>>
             /\ db_session = "closed"
             /\ task_result.state = "SUCCESS"
             /\ task_result.result = task_in.analysis.report

(***************************************************************************)
(* The endpoints start_scan and get_scan_status, src/main.py lines 52-80,  *)
(* with verify_repo_permission, src/auth.py lines 84-94.                   *)
(*                                                                         *)
(* One request is served per behaviour.  What the collaborators do for the *)
(* request (decryption, GitHub, the broker, the result backend) is part of *)
(* the request record.                                                     *)
(***************************************************************************)
\* What GitHub does for verify_repo_permission: the repository is returned
\* with or without push permission, GithubException with status 404 or with
\* another status, or an exception of another class.
Permissions == {"push", "no push", "github 404", "github error", "raises"}

\* The states of a task in the result backend; an id the backend does not
\* know reads as PENDING.
TaskStates == {"PENDING", "STARTED", "SUCCESS", "FAILURE"}

StartRequests ==
    [endpoint : {"start_scan"}, user : UserIds, repo_name : RepoNames,
     has_token : BOOLEAN, decrypt : {"ok", "raises"},
     permission : Permissions, delay : {"ok", "raises"}]

\* owner is the user of the scan record of the task id, 0 when there is no
\* such record.
StatusRequests ==
    [endpoint : {"get_scan_status"}, user : UserIds, task_id : {"t1"},
     owner : {0} \cup UserIds, task_state : TaskStates]

NoException == [kind |-> "none", code |-> 0]

HTTPException(code) == [kind |-> "http", code |-> code]

OtherException == [kind |-> "other", code |-> 0]

\* A check that lets a repository without push permission pass.
verify_repo_permission_NoPushCheck(permission) ==
    CASE permission \in {"push", "no push"} -> NoException
      [] permission = "github 404" -> HTTPException(404)
      [] permission = "github error" -> HTTPException(400)
      [] OTHER -> OtherException

\* auth.py lines 84-94: what leaves verify_repo_permission.
verify_repo_permission(permission) ==
    CASE permission = "push" -> NoException
      [] permission = "no push" -> HTTPException(403)
      [] permission = "github 404" -> HTTPException(404)
      [] permission = "github error" -> HTTPException(400)
      [] OTHER -> OtherException

\* main.py lines 62-69: an HTTPException is raised again, any other
\* exception becomes a 500.
ErrorResponse(exception) ==
    [code |-> IF exception.kind = "http" THEN exception.code ELSE 500,
     body |-> [kind |-> "error"]]

\* main.py lines 52 and 61.
Accepted(task_id) ==
    [code |-> 202, body |-> [kind |-> "task", task_id |-> task_id]]

\* main.py lines 74-80.
StatusResponse(request) ==
    [code |-> 200,
     body |-> IF request.task_state = "FAILURE"
              THEN [kind |-> "status", status |-> "FAILURE", result |-> <<>>]
              ELSE IF request.task_state = "SUCCESS"
              THEN [kind |-> "status", status |-> "SUCCESS",
                    result |-> <<request.task_id>>]
              ELSE [kind |-> "status", status |-> request.task_state,
                    result |-> <<>>]]

InitApi ==
    /\ api_request \in StartRequests \cup StatusRequests
    /\ api_pc = api_request.endpoint
    /\ api_response = <<>>
    /\ api_queue = <<>>
    /\ ConcIdle /\ TaskIdle
    /\ DetIdle /\ ReqIdle /\ ScanIdle
    /\ OsvIdle /\ RiskIdle /\ PipeIdle

\* main.py lines 54-55.
ApiCheckToken ==
    /\ api_pc = "start_scan"
    /\ IF ~api_request.has_token
       THEN /\ api_response' = <<ErrorResponse(HTTPException(403))>>
            /\ api_pc' = "done"
       ELSE /\ api_pc' = "decrypt"
            /\ UNCHANGED api_response
    /\ UNCHANGED <<api_request, api_queue>>
    /\ UNCHANGED <<concVars, taskVars, detVars, reqVars, scanVars, osvVars,
                   riskVars, pipeVars>>

\* main.py line 57.
ApiDecrypt ==
    /\ api_pc = "decrypt"
    /\ IF api_request.decrypt = "raises"
       THEN /\ api_response' = <<ErrorResponse(OtherException)>>
            /\ api_pc' = "done"
       ELSE /\ api_pc' = "verify"
            /\ UNCHANGED api_response
    /\ UNCHANGED <<api_request, api_queue>>
    /\ UNCHANGED <<concVars, taskVars, detVars, reqVars, scanVars, osvVars,
                   riskVars, pipeVars>>

\* main.py line 58.
ApiVerify ==
    /\ api_pc = "verify"
    /\ LET raised == verify_repo_permission(api_request.permission)
       IN  IF raised # NoException
           THEN /\ api_response' = <<ErrorResponse(raised)>>
                /\ api_pc' = "done"
           ELSE /\ api_pc' = "delay"
                /\ UNCHANGED api_response
    /\ UNCHANGED <<api_request, api_queue>>
    /\ UNCHANGED <<concVars, taskVars, detVars, reqVars, scanVars, osvVars,
                   riskVars, pipeVars>>

\* main.py lines 60-61.
ApiDelay ==
    /\ api_pc = "delay"
    /\ IF api_request.delay = "raises"
       THEN /\ api_response' = <<ErrorResponse(OtherException)>>
            /\ UNCHANGED api_queue
       ELSE /\ api_queue' =
                  Append(api_queue,
                         [task_id |-> "t1", repo_name |-> api_request.repo_name,
                          user_id |-> api_request.user])
            /\ api_response' = <<Accepted("t1")>>
    /\ api_pc' = "done"
    /\ UNCHANGED api_request
    /\ UNCHANGED <<concVars, taskVars, detVars, reqVars, scanVars, osvVars,
                   riskVars, pipeVars>>

\* main.py lines 71-80.
ApiStatus ==
    /\ api_pc = "get_scan_status"
    /\ api_response' = <<StatusResponse(api_request)>>
    /\ api_pc' = "done"
    /\ UNCHANGED <<api_request, api_queue>>
    /\ UNCHANGED <<concVars, taskVars, detVars, reqVars, scanVars, osvVars,
                   riskVars, pipeVars>>

NextApi ==
    ApiCheckToken \/ ApiDecrypt \/ ApiVerify \/ ApiDelay \/ ApiStatus

SpecApi == InitApi /\ [][NextApi]_vars

(***************************************************************************)
(* Properties of the endpoints (SpecApi).                                  *)
(***************************************************************************)
StatusServed == api_pc = "done" /\ api_request.endpoint = "get_scan_status"

ScanStarted == api_pc = "done" /\ api_request.endpoint = "start_scan"

\* C26: a status request by a user who does not own the scan record of the
\* task id is answered 403, one for a task id without a scan record 404, and
\* status SUCCESS with the result goes only to the owner.
C26_StatusOnlyToOwner ==
    StatusServed =>
        /\ api_request.owner = 0 => api_response[1].code = 404
        /\ api_request.owner \notin {0, api_request.user}
              => api_response[1].code = 403
        /\ (api_response[1].code = 200
              /\ api_response[1].body.status = "SUCCESS")
              => api_request.owner = api_request.user

NoTask ==
    /\ api_queue = <<>>
    /\ api_response[1].body.kind = "error"

\* The outcome of start_scan case by case, with the status code that answers
\* a failure of the permission check other than no access and not found.
StartScanOutcome(other_failure) ==
    ScanStarted =>
        /\ ~api_request.has_token => (NoTask /\ api_response[1].code = 403)
        /\ (api_request.has_token /\ api_request.decrypt = "ok") =>
              /\ api_request.permission = "no push"
                    => (NoTask /\ api_response[1].code = 403)
              /\ api_request.permission = "github 404"
                    => (NoTask /\ api_response[1].code = 404)
              /\ api_request.permission \in {"github error", "raises"}
                    => /\ NoTask
                       /\ api_response[1].code
                             = other_failure[api_request.permission]
        /\ api_queue # <<>> =>
              /\ api_request.has_token
              /\ api_request.decrypt = "ok"
              /\ api_request.permission = "push"
              /\ Len(api_queue) = 1
              /\ api_response[1] = Accepted(api_queue[1].task_id)

\* C29 as stated: no token 403, no access 403, not found 404, any other
\* failure of the permission check 500; in each case no task and no task id.
C29_EnqueueOnlyAfterCheck_AllOther500 ==
    StartScanOutcome([p \in {"github error", "raises"} |-> 500])

\* C29: a task is enqueued only when the user has a token and the permission
\* check ended without an exception.  No token gives 403, no push permission
\* 403, a repository GitHub does not find 404, any other GitHub error 400,
\* and an exception of another class 500; in each case no task is enqueued
\* and no task id is returned.
C29_EnqueueOnlyAfterCheck ==
    StartScanOutcome([p \in {"github error", "raises"} |->
                         IF p = "github error" THEN 400 ELSE 500])

\* start_scan has answered a GitHub error other than 404 without enqueuing.
C29_Witness ==
    /\ ScanStarted
    /\ api_request.has_token
    /\ api_request.decrypt = "ok"
    /\ api_request.permission = "github error"
    /\ api_queue = <<>>
    /\ api_response[1].code = 400

=============================================================================
